---------------------------- MODULE Spec2Model ----------------------------
(***************************************************************************)
(* Model of the chat-serving path of the TODO application:                 *)
(*   - the per-user MCP client cache of app/utils/agent_factory.py         *)
(*     (get_or_create_mcp_client, invalidate_mcp_client_cache,             *)
(*     _evict_expired_clients, _safe_close_mcp_client), and                *)
(*   - the streaming orchestrator ChatbotServer.respond of                 *)
(*     app/server/chatkit_server.py with the endpoint of app/main.py.      *)
(*                                                                         *)
(* Requests are asyncio tasks on one event loop.  A task is suspended only *)
(* at an await: waiting for the cache lock, the connect of a new client,   *)
(* and the model run that uses the client it was handed.                   *)
(***************************************************************************)
EXTENDS Integers, Sequences, FiniteSets, TLC

(***************************************************************************)
(* Bounds of the model.                                                    *)
(***************************************************************************)
MaxClients == 2        \* clients constructed (connect attempts) in one behaviour
MaxTicks == 2          \* advances of the monotonic clock in one behaviour

Tasks == {"r1", "r2"}              \* concurrent requests
Users == {"u1", "u2"}              \* user identities
Tokens == {"credA", "credB", "credC"}   \* credentials ("Bearer <token>" strings)
\* chatkit_endpoint takes the user identity from the verified token: a token
\* belongs to one user.  u1 has two tokens (a rotated credential), u2 one.
TokenOwner == [credA |-> "u1", credB |-> "u1", credC |-> "u2"]
NoTask == "none"
NoToken == "none"

(***************************************************************************)
(* Program constants.                                                      *)
(***************************************************************************)
MCP_CLIENT_IDLE_TTL_SECONDS == 10 * 60
\* The clock advances in steps of the idle TTL, so that an idle age of exactly
\* the TTL (one step) and idle ages beyond it (two steps) both occur.
TickStep == MCP_CLIENT_IDLE_TTL_SECONDS

Methods == {"cleanup", "close", "disconnect"}
\* Faulty variant: close is probed first, cleanup last.
CloseOrderCloseFirst == <<"close", "disconnect", "cleanup">>

\* The probing order of _safe_close_mcp_client.
CloseOrder == <<"cleanup", "close", "disconnect">>

VARIABLES
    clock,        \* time.monotonic()
    cache,        \* _mcp_client_cache: user id -> CachedMCPClient
    clients,      \* every MCPServerStreamableHttp constructed so far, by identity
    lockHolder,   \* the task inside "async with _mcp_client_lock", or NoTask
    lockWaiters,  \* tasks suspended in _mcp_client_lock.acquire(), in FIFO order
    pc,           \* where each task is
    op,           \* the arguments and locals of each task's current cache call
                  \* (now_monotonic is dropped when the call returns)
    result,       \* what the last acquire gave the task: a client, or -1 if it raised
    lastAcq,      \* history: the credential of the last successful acquire per user
    scenario      \* history: "fresh" until a cache call has returned, "returned"
                  \* after that, "broken" once a call started after a return
                  \* (the calls no longer all overlap) or an invalidate was called

cacheVars == <<clock, cache, clients, lockHolder, lockWaiters, pc, op, result,
               lastAcq, scenario>>

\* One orchestrated run (one call of ChatbotServer.respond) at a time.
VARIABLES
    rphase,       \* where respond is: "idle", "history", "agent", "convert",
                  \* "streaming", "done" or "failed"
    runNo,        \* how many runs have started
    streamed,     \* whether respond is iterated by the StreamingResponse, after
                  \* chatkit_endpoint returned, or inside process()
    inp,          \* the events stream_agent_response has produced so far
    out,          \* the events respond has yielded so far
    fake_id,      \* respond's local fake_id
    genCalls,     \* calls of store.generate_item_id in this run
    nextItemId,   \* the store's identifier counter
    rawFailure,   \* the failure raised inside the run: [phase, kind]
    raised,       \* the exception that left respond
    observed,     \* the error the caller of the endpoint observes
    errInfo,      \* the failure's provider message, and the attributes of the
                  \* exception that left respond and of the error observed
    steps         \* the steps of respond that have completed in this run

runVars == <<rphase, runNo, streamed, inp, out, fake_id, genCalls, nextItemId,
             rawFailure, raised, observed, errInfo, steps>>

\* One call of _safe_close_mcp_client, step by step.
VARIABLES
    closeState,   \* "idle", "probing" (inside the for loop) or "returned"
    closeShape,   \* the client: what each shutdown operation does when probed
    closeIdx,     \* the position of the loop in the probing order
    closeInvoked, \* the shutdown operations invoked so far, in order
    closedVia     \* the operation that returned normally, or "none"

closeVars == <<closeState, closeShape, closeIdx, closeInvoked, closedVia>>

\* The input of one model run, as respond builds it.
VARIABLES
    ipc,            \* "idle", "called", "loaded" (line 75 passed) or "built"
    thread,         \* the items of the thread in the store, oldest first
    input_message,  \* respond's argument: the new user message, or None
    items_page,     \* items_page.data
    input_items     \* respond's local input_items

inputVars == <<ipc, thread, input_message, items_page, input_items>>

\* The users and tasks tables of the task database.
VARIABLES
    users,        \* the rows of users, by id
    tasks,        \* the rows of tasks: [id, user_id]
    task_id_seq,  \* the last value of the sequence behind tasks.id
    dbLast,       \* the last statement: what it was, its argument, how it
                  \* ended and how many tasks it deleted
    assigned      \* history: every id a created task has received

dbVars == <<users, tasks, task_id_seq, dbLast, assigned>>

\* One request through the authorization dependencies of the task API.
VARIABLES
    apc,             \* "idle", "request", "session", "email" or "done"
    path_user_id,    \* the user_id of the request's path
    session_lookup,  \* what the session table holds for the bearer token
    session_userId,  \* the "userId" of that row
    email_lookup,    \* what the user table holds for "emailVerified"
    session_data,    \* the dict handed from one dependency to the next
    response         \* what the dependencies gave: a value or an HTTPException

authVars == <<apc, path_user_id, session_lookup, session_userId, email_lookup,
              session_data, response>>

\* Invocations of ChatbotServer.respond that are in progress at the same time,
\* as far as the rewriting of identifiers goes.
VARIABLES
    cphase,       \* per invocation: "idle" or "streaming"
    cinst,        \* per invocation: the number of the run it is executing
    cstarted,     \* how many runs have started
    cfake,        \* per invocation: its local fake_id
    cout,         \* per invocation: the identifiers of the events it has yielded
    cids          \* history: the identifiers minted, each with the run it was
                  \* minted for

concVars == <<cphase, cinst, cstarted, cfake, cout, cids>>

NoOp == [kind |-> "none", user |-> "none", token |-> NoToken, now |-> 0,
         stale |-> 0, new |-> 0]

(***************************************************************************)
(* _safe_close_mcp_client: the shutdown operations a close invokes on a    *)
(* client that has the operations `has`, of which `raises` raise.          *)
(***************************************************************************)
RECURSIVE SafeCloseFrom(_, _, _)
SafeCloseFrom(i, has, raises) ==
    IF i > Len(CloseOrder) THEN <<>>
    ELSE LET method_name == CloseOrder[i] IN
         IF method_name \notin has
         THEN SafeCloseFrom(i + 1, has, raises)                     \* continue
         ELSE IF method_name \in raises
              THEN <<method_name>> \o SafeCloseFrom(i + 1, has, raises)  \* except: next
              ELSE <<method_name>>                                  \* return

\* Faulty variant: a close that reports success whatever the client did.
safe_close_always_closed(has, raises) ==
    [invoked |-> SafeCloseFrom(1, has, raises), closed |-> TRUE]

\* invoked: the operations called, in order; closed: one of them returned.
safe_close_mcp_client(has, raises) ==
    LET inv == SafeCloseFrom(1, has, raises)
    IN  [invoked |-> inv,
         closed  |-> inv # <<>> /\ inv[Len(inv)] \notin raises]

\* The outcomes a close can have, over every client shape.
CloseOutcomes ==
    {safe_close_mcp_client(has, raises).closed :
        has \in SUBSET Methods, raises \in SUBSET Methods}

(***************************************************************************)
(* Helpers of the cache.                                                   *)
(***************************************************************************)
\* Faulty variant: >= instead of >.
IsExpiredAtTTL(now_monotonic, last_used_monotonic) ==
    now_monotonic - last_used_monotonic >= MCP_CLIENT_IDLE_TTL_SECONDS

\* Faulty variant: the TTL is taken for milliseconds.
IsExpiredMillis(now_monotonic, last_used_monotonic) ==
    now_monotonic - last_used_monotonic > MCP_CLIENT_IDLE_TTL_SECONDS * 1000

\* _evict_expired_clients, the test of line 53.
IsExpired(now_monotonic, last_used_monotonic) ==
    now_monotonic - last_used_monotonic > MCP_CLIENT_IDLE_TTL_SECONDS

ExpiredUsers(c, now_monotonic) ==
    {u \in DOMAIN c : IsExpired(now_monotonic, c[u].last_used)}

\* Faulty variant: the entries stay in the mapping.
PopKept(c, us) == c

\* dict.pop(user_id, None) for a set of keys.
Pop(c, us) == [u \in (DOMAIN c) \ us |-> c[u]]

\* Faulty variant: the new entry is never stored.
StoreEntryDropped(c, u, entry) == c

\* _mcp_client_cache[user_id] = CachedMCPClient(...)
StoreEntry(c, u, entry) ==
    [x \in (DOMAIN c) \cup {u} |-> IF x = u THEN entry ELSE c[x]]

\* Faulty variant: every client is closed a second time.
CloseAllTwice(cl, ks, ok, why) ==
    [k \in DOMAIN cl |->
        IF k \in ks
        THEN [cl[k] EXCEPT !.closes = @ + 2,
                           !.closedBy = why[k],
                           !.open = IF ok[k] THEN FALSE ELSE @]
        ELSE cl[k]]

\* Faulty variant: the stale clients are dropped without a close.
CloseAllSkipped(cl, ks, ok, why) == cl

\* Faulty variant: the client a changed credential replaces is dropped
\* without a close.
CloseAllButReplaced(cl, ks, ok, why) ==
    [k \in DOMAIN cl |->
        IF k \in ks /\ why[k] # "refresh"
        THEN [cl[k] EXCEPT !.closes = @ + 1,
                           !.closedBy = why[k],
                           !.open = IF ok[k] THEN FALSE ELSE @]
        ELSE cl[k]]

\* await _safe_close_mcp_client(client) on each client of ks; ok[k] tells
\* whether a shutdown operation of client k returned normally, and why
\* records which path closed it.
CloseAll(cl, ks, ok, why) ==
    [k \in DOMAIN cl |->
        IF k \in ks
        THEN [cl[k] EXCEPT !.closes = @ + 1,
                           !.closedBy = why[k],
                           !.open = IF ok[k] THEN FALSE ELSE @]
        ELSE cl[k]]

\* Faulty variant: the entry is stored before the connect is known to have succeeded.
CacheAfterConnectAlways(c, o, connected) ==
    StoreEntry(c, o.user,
               [client |-> o.new, token |-> o.token, last_used |-> o.now])

\* Lines 115-126: the entry is stored only when connect() returned.
CacheAfterConnect(c, o, connected) ==
    IF connected
    THEN StoreEntry(c, o.user,
                    [client |-> o.new, token |-> o.token, last_used |-> o.now])
    ELSE c

\* Faulty variant: a hit leaves last_used as it was.
TouchSkipped(c, u, now_monotonic) == c

\* "cached.last_used_monotonic = now_monotonic" (line 91).
Touch(c, u, now_monotonic) == [c EXCEPT ![u].last_used = now_monotonic]

\* Faulty variant: the token is not compared.
CacheHitAnyToken(c, u, token) == u \in DOMAIN c

\* "if cached and cached.token == token"
CacheHit(c, u, token) == u \in DOMAIN c /\ c[u].token = token


\* Faulty variant: invalidate closes every cached client.
InvalidateTargetsAll(c, u) == {c[x].client : x \in DOMAIN c}

\* "cached = _mcp_client_cache.pop(user_id, None); if not cached: return"
\* (lines 66-68): the clients invalidate goes on to close.
InvalidateTargets(c, u) == IF u \in DOMAIN c THEN {c[u].client} ELSE {}

\* Faulty variant: a close none of whose shutdown operations returned raises
\* into the operation around it.
AfterCloseRaising(oks, next) == IF FALSE \in oks THEN "raised" ELSE next

\* Where a cache operation goes on after its closes, of outcomes oks:
\* _safe_close_mcp_client catches and logs what a shutdown operation raises
\* (lines 46-47), so the operation continues as it would have.
AfterClose(oks, next) == next

(***************************************************************************)
(* The cache operations.                                                   *)
(***************************************************************************)
Returned(sc) == IF sc = "fresh" THEN "returned" ELSE sc

\* Faulty variant: every client is constructed with one and the same
\* Authorization header.
NewClientSharedHeader(u, token) ==
    [user |-> u, token |-> "credA", state |-> "connecting", closes |-> 0,
     closedBy |-> "none", open |-> FALSE]

NewClient(u, token) ==
    [user |-> u, token |-> token, state |-> "connecting", closes |-> 0,
     closedBy |-> "none", open |-> FALSE]

\* Faulty variant: the locked section is entered without taking the lock.
LockFreeUnchecked == TRUE

\* asyncio.Lock.acquire() returns without suspending when the lock is free
\* and nobody waits for it.
LockFree == lockHolder = NoTask /\ lockWaiters = <<>>

\* get_or_create_mcp_client inside "async with _mcp_client_lock", up to the
\* connect: the idle sweep, the lookup, the hit, the refresh of a stale
\* entry and the construction of the new client.  o is the call's record,
\* sc the scenario after the call started.
AcquireLocked(t, o, sc) ==
    LET expired    == ExpiredUsers(cache, o.now)
        swept      == Pop(cache, expired)
        hit        == CacheHit(swept, o.user, o.token)
        refresh    == o.user \in DOMAIN swept /\ ~hit
        staleUsers == IF refresh THEN {o.user} ELSE {}
        toClose    == {cache[u].client : u \in expired \cup staleUsers}
        why        == [k \in toClose |->
                          IF \E u \in expired : cache[u].client = k
                          THEN "sweep" ELSE "refresh"]
    IN  \E ok \in [toClose -> CloseOutcomes] :
          IF hit
          THEN /\ cache' = Touch(swept, o.user, o.now)
               /\ clients' = CloseAll(clients, toClose, ok, why)
               /\ lockHolder' = NoTask
               /\ pc' = [pc EXCEPT ![t] =
                            AfterClose({ok[k] : k \in toClose}, "running")]
               /\ op' = [op EXCEPT ![t] = [o EXCEPT !.now = 0]]
               /\ result' = [result EXCEPT ![t] = swept[o.user].client]
               /\ lastAcq' = [lastAcq EXCEPT ![o.user] = o.token]
               /\ scenario' = Returned(sc)
          ELSE /\ Len(clients) < MaxClients
               /\ cache' = Pop(swept, staleUsers)
               /\ clients' = Append(CloseAll(clients, toClose, ok, why),
                                    NewClient(o.user, o.token))
               /\ lockHolder' = t
               /\ pc' = [pc EXCEPT ![t] =
                            AfterClose({ok[k] : k \in toClose}, "connecting")]
               /\ op' = [op EXCEPT ![t] =
                            [o EXCEPT !.stale = IF refresh
                                                THEN swept[o.user].client ELSE 0,
                                      !.new = Len(clients) + 1]]
               /\ UNCHANGED <<result, lastAcq>>
               /\ scenario' = sc

\* invalidate_mcp_client_cache inside "async with _mcp_client_lock".
InvalidateLocked(t, o) ==
    LET toClose == InvalidateTargets(cache, o.user)
    IN  \E ok \in [toClose -> CloseOutcomes] :
          /\ cache' = Pop(cache, {o.user})
          /\ clients' = CloseAll(clients, toClose, ok,
                                 [k \in toClose |-> "invalidate"])
          /\ lockHolder' = NoTask
          /\ pc' = [pc EXCEPT ![t] =
                       AfterClose({ok[k] : k \in toClose}, "invalidated")]
          /\ op' = [op EXCEPT ![t] = o]
          /\ UNCHANGED <<result, lastAcq>>

\* A request calls get_or_create_mcp_client(user_id, token): line 84 reads
\* the clock, line 86 takes the lock or suspends.
AcquireCall(t, u, token) ==
    /\ pc[t] = "idle"
    /\ LET o  == [kind |-> "acquire", user |-> u, token |-> token,
                  now |-> clock, stale |-> 0, new |-> 0]
           sc == IF scenario = "returned" THEN "broken" ELSE scenario
       IN  IF LockFree
           THEN AcquireLocked(t, o, sc) /\ UNCHANGED lockWaiters
           ELSE /\ pc' = [pc EXCEPT ![t] = "wait"]
                /\ op' = [op EXCEPT ![t] = o]
                /\ lockWaiters' = Append(lockWaiters, t)
                /\ scenario' = sc
                /\ UNCHANGED <<cache, clients, lockHolder, result, lastAcq>>
    /\ UNCHANGED <<clock, runVars, closeVars, concVars, inputVars,
                   dbVars, authVars>>

\* A task calls invalidate_mcp_client_cache(user_id).
InvalidateCall(t, u) ==
    /\ pc[t] = "idle"
    /\ LET o == [NoOp EXCEPT !.kind = "invalidate", !.user = u]
       IN  IF LockFree
           THEN InvalidateLocked(t, o) /\ UNCHANGED lockWaiters
           ELSE /\ pc' = [pc EXCEPT ![t] = "wait"]
                /\ op' = [op EXCEPT ![t] = o]
                /\ lockWaiters' = Append(lockWaiters, t)
                /\ UNCHANGED <<cache, clients, lockHolder, result, lastAcq>>
    /\ scenario' = "broken"
    /\ UNCHANGED <<clock, runVars, closeVars, concVars, inputVars,
                   dbVars, authVars>>

\* Faulty variant: the first waiter resumes although the lock is held (a
\* lock that covers the lookup and not the connect).
LockGrantedEarly(t) ==
    /\ pc[t] = "wait"
    /\ lockWaiters # <<>> /\ Head(lockWaiters) = t
    /\ lockWaiters' = Tail(lockWaiters)
    /\ IF op[t].kind = "acquire"
       THEN AcquireLocked(t, op[t], scenario)
       ELSE InvalidateLocked(t, op[t]) /\ UNCHANGED scenario
    /\ UNCHANGED <<clock, runVars, closeVars, concVars, inputVars,
                   dbVars, authVars>>

\* The lock is released and its first waiter resumes with the lock.
LockGranted(t) ==
    /\ pc[t] = "wait"
    /\ lockHolder = NoTask
    /\ lockWaiters # <<>> /\ Head(lockWaiters) = t
    /\ lockWaiters' = Tail(lockWaiters)
    /\ IF op[t].kind = "acquire"
       THEN AcquireLocked(t, op[t], scenario)
       ELSE InvalidateLocked(t, op[t]) /\ UNCHANGED scenario
    /\ UNCHANGED <<clock, runVars, closeVars, concVars, inputVars,
                   dbVars, authVars>>

\* "await mcp_client.connect()" returns: lines 122-128.
ConnectOK(t) ==
    /\ pc[t] = "connecting"
    /\ LET o == op[t] IN
       /\ clients' = [clients EXCEPT ![o.new].state = "connected",
                                     ![o.new].open = TRUE]
       /\ cache' = CacheAfterConnect(cache, o, TRUE)
       /\ result' = [result EXCEPT ![t] = o.new]
       /\ lastAcq' = [lastAcq EXCEPT ![o.user] = o.token]
    /\ lockHolder' = NoTask
    /\ pc' = [pc EXCEPT ![t] = "running"]
    /\ scenario' = Returned(scenario)
    /\ op' = [op EXCEPT ![t].now = 0]
    /\ UNCHANGED <<clock, lockWaiters, runVars, closeVars, concVars, inputVars,
                   dbVars, authVars>>

\* Faulty variant: the exception of connect leaves the function with the lock
\* still held (an acquire() whose release() is not in a finally).
ConnectFailHolding(t) ==
    /\ pc[t] = "connecting"
    /\ \E ok \in [{op[t].new} -> CloseOutcomes] :
          clients' = CloseAll([clients EXCEPT ![op[t].new].state = "failed"],
                              {op[t].new}, ok,
                              [k \in {op[t].new} |-> "connect_failed"])
    /\ cache' = CacheAfterConnect(cache, op[t], FALSE)
    /\ result' = [result EXCEPT ![t] = -1]
    /\ pc' = [pc EXCEPT ![t] = "raised"]
    /\ scenario' = Returned(scenario)
    /\ op' = [op EXCEPT ![t].now = 0]
    /\ UNCHANGED <<clock, lockHolder, lockWaiters, lastAcq, runVars, closeVars,
                   concVars, inputVars,
                   dbVars, authVars>>

\* "await mcp_client.connect()" raises: lines 117-120.
ConnectFail(t) ==
    /\ pc[t] = "connecting"
    /\ \E ok \in [{op[t].new} -> CloseOutcomes] :
          clients' = CloseAll([clients EXCEPT ![op[t].new].state = "failed"],
                              {op[t].new}, ok,
                              [k \in {op[t].new} |-> "connect_failed"])
    /\ cache' = CacheAfterConnect(cache, op[t], FALSE)
    /\ result' = [result EXCEPT ![t] = -1]
    /\ lockHolder' = NoTask
    /\ pc' = [pc EXCEPT ![t] = "raised"]
    /\ scenario' = Returned(scenario)
    /\ op' = [op EXCEPT ![t].now = 0]
    /\ UNCHANGED <<clock, lockWaiters, lastAcq, runVars, closeVars, concVars, inputVars,
                   dbVars, authVars>>

\* The request that was handed a client finishes its model run, the request
\* whose acquire raised ends, or the caller of invalidate goes on.
Finish(t) ==
    /\ pc[t] \in {"running", "raised", "invalidated"}
    /\ pc' = [pc EXCEPT ![t] = "idle"]
    /\ op' = [op EXCEPT ![t] = NoOp]
    /\ result' = [result EXCEPT ![t] = 0]
    /\ UNCHANGED <<clock, cache, clients, lockHolder, lockWaiters, lastAcq,
                   scenario, runVars, closeVars, concVars, inputVars,
                   dbVars, authVars>>

\* Time passes.
Tick ==
    /\ clock < MaxTicks * TickStep
    /\ clock' = clock + TickStep
    /\ UNCHANGED <<cache, clients, lockHolder, lockWaiters, pc, op, result,
                   lastAcq, scenario, runVars, closeVars, concVars, inputVars,
                   dbVars, authVars>>

\* The process shuts down once no request is in progress: the part of
\* lifespan after its yield, "await store.close()" (main.py lines 70-72).
\* Nothing there touches _mcp_client_cache or a client.
Shutdown ==
    /\ \A t \in Tasks : pc[t] = "idle"
    /\ pc' = [t \in Tasks |-> "stopped"]
    /\ UNCHANGED <<clock, cache, clients, lockHolder, lockWaiters, op, result,
                   lastAcq, scenario, runVars, closeVars, concVars, inputVars,
                   dbVars, authVars>>

CacheInit ==
    /\ clock = 0
    /\ cache = <<>>
    /\ clients = <<>>
    /\ lockHolder = NoTask
    /\ lockWaiters = <<>>
    /\ pc = [t \in Tasks |-> "idle"]
    /\ op = [t \in Tasks |-> NoOp]
    /\ result = [t \in Tasks |-> 0]
    /\ lastAcq = [u \in Users |-> NoToken]
    /\ scenario = "fresh"

CacheNext ==
    \/ \E t \in Tasks, token \in Tokens : AcquireCall(t, TokenOwner[token], token)
    \/ \E t \in Tasks, u \in Users : InvalidateCall(t, u)
    \/ \E t \in Tasks : LockGranted(t)
    \/ \E t \in Tasks : ConnectOK(t)
    \/ \E t \in Tasks : ConnectFail(t)
    \/ \E t \in Tasks : Finish(t)
    \/ Tick

(***************************************************************************)
(* The streaming orchestrator: ChatbotServer.respond and chatkit_endpoint. *)
(***************************************************************************)
MaxEvents == 3         \* events one model run produces
MaxRuns == 2           \* orchestrated runs in one behaviour

\* Item identifiers are records: the upstream placeholder "__fake_id__", a
\* stable identifier supplied upstream, one minted by the store, or None.
FAKE_ID == [kind |-> "__fake_id__", n |-> 0]
UpstreamId == [kind |-> "upstream", n |-> 1]
NoId == [kind |-> "None", n |-> 0]

\* ThreadItemAddedEvent, ThreadItemUpdatedEvent and ThreadItemDoneEvent carry
\* an item identifier; any other ThreadStreamEvent carries none, or one that
\* respond does not look at (lines 125-130 test for these three classes only).
ItemEventTypes == {"item_added", "item_updated", "item_done"}
UpstreamEvents ==
    [type : ItemEventTypes, id : {FAKE_ID, UpstreamId}]
        \cup [type : {"other"}, id : {NoId, FAKE_ID}]

\* store.generate_item_id("message", thread, context): the n-th identifier
\* the store mints.
generate_item_id(n) == [kind |-> "message", n |-> n]

\* Faulty variant: the identifier is minted anew at every placeholder.
remap_fake_id_regenerated(item_id, fid, n) ==
    IF item_id # FAKE_ID
    THEN [id |-> item_id, fake_id |-> fid, generated |-> FALSE]
    ELSE [id |-> generate_item_id(n), fake_id |-> generate_item_id(n),
          generated |-> TRUE]

\* Faulty variant: the first identifier is kept, but the store is asked for
\* an identifier at every placeholder.
remap_fake_id_reminted(item_id, fid, n) ==
    IF item_id # FAKE_ID
    THEN [id |-> item_id, fake_id |-> fid, generated |-> FALSE]
    ELSE IF fid = NoId
         THEN [id |-> generate_item_id(n), fake_id |-> generate_item_id(n),
               generated |-> TRUE]
         ELSE [id |-> fid, fake_id |-> fid, generated |-> TRUE]

\* remap_fake_id (lines 113-119), with fid the enclosing fake_id and n the
\* store's counter: the identifier returned, the new fake_id, and whether
\* generate_item_id was called.
remap_fake_id(item_id, fid, n) ==
    IF item_id # FAKE_ID
    THEN [id |-> item_id, fake_id |-> fid, generated |-> FALSE]
    ELSE IF fid = NoId
         THEN [id |-> generate_item_id(n), fake_id |-> generate_item_id(n),
               generated |-> TRUE]
         ELSE [id |-> fid, fake_id |-> fid, generated |-> FALSE]

\* Faulty variant: the rewritten event overtakes the ones already forwarded.
ForwardOvertaking(forwarded, event) == <<event>> \o forwarded

\* "yield event" (line 132): the caller receives the event after every event
\* yielded before it.
Forward(forwarded, event) == Append(forwarded, event)

\* Faulty variant: the identifier of every event is remapped, whatever its
\* class.
RewriteEveryEvent(event, fid, n) == remap_fake_id(event.id, fid, n)

\* The body of the "async for" (lines 124-132) on one event.
Rewrite(event, fid, n) ==
    IF event.type \in ItemEventTypes
    THEN remap_fake_id(event.id, fid, n)
    ELSE [id |-> event.id, fake_id |-> fid, generated |-> FALSE]

\* The failures each step of respond can raise, by exception class.
FailureKinds == {"RateLimitError", "SQLAlchemyError", "HTTPStatusError",
                 "ValidationError", "Exception"}
Phases == {"history", "agent", "convert", "streaming"}
NoFailure == [phase |-> "none", kind |-> "none"]

\* Faulty variant: respond converts every failure of the stream loop.
RespondRaisesCatchAll(phase, kind) ==
    IF phase = "streaming" THEN "CustomStreamError" ELSE kind

\* What leaves respond when `kind` is raised in `phase`: only the "async for"
\* is inside the try, and only RateLimitError is caught (lines 122-150).
RespondRaises(phase, kind) ==
    IF phase = "streaming" /\ kind = "RateLimitError"
    THEN "CustomStreamError"
    ELSE kind

\* The except clauses of chatkit_endpoint (lines 156-186), in order.
EndpointRaises(exc) ==
    IF exc = "RateLimitError" THEN "QuotaExceededError"
    ELSE IF exc = "SQLAlchemyError" THEN "StorageError"
    ELSE IF exc = "HTTPStatusError" THEN "MCPError"
    ELSE IF exc = "ValidationError" THEN "HTTPException400"
    ELSE "AgentError"

\* The error the caller observes: the except clauses of chatkit_endpoint
\* surround "await chatkit_server.process(body, context)" only, so they see
\* what respond raises only if respond is iterated inside process().
Observed(exc, in_stream) ==
    IF in_stream THEN exc ELSE EndpointRaises(exc)

\* The text of a provider message, as far as the retry patterns read it: the
\* phrase before the number (in lower case, capitalised, or missing), whether
\* digits follow it, their value in tenths of a second, and the letter after
\* the digits ("retry in 90s", "Retry in 59.9s", "retry in 2m", "retry later").
RetryPhrases == {"retry in", "Retry in", ""}
RetryTenths == {50, 599, 600, 900, 1199, 1200}
RetryUnits == {"s", "m"}
ProviderMessages ==
    [phrase : RetryPhrases, digits : {TRUE}, tenths : RetryTenths,
     unit : RetryUnits]
        \cup [phrase : RetryPhrases, digits : {FALSE}, tenths : {0},
              unit : RetryUnits]
NoMessage == [phrase |-> "", digits |-> FALSE, tenths |-> 0, unit |-> "s"]

\* The messages of the failures the model distinguishes: only the message of
\* a RateLimitError is read.
MessagesOf(kind) ==
    IF kind = "RateLimitError" THEN ProviderMessages ELSE {NoMessage}

\* The retry_info a classifier puts in its message: none (""), "a few
\* seconds", or a number of minutes.
NoHint == [text |-> "", minutes |-> 0]
FewSeconds == [text |-> "a few seconds", minutes |-> 0]
Minutes(n) == [text |-> "minutes", minutes |-> n]

\* float(match.group(1)) is tenths / 10 seconds; int(retry_seconds / 60).
WholeMinutes(tenths) == tenths \div 600

\* re.search(r"retry in (\d+\.?\d*)s", error_msg, re.IGNORECASE), line 136.
RespondMatch(msg) ==
    msg.phrase \in {"retry in", "Retry in"} /\ msg.digits /\ msg.unit = "s"

\* Faulty variant: the threshold is exclusive.
RespondRetryInfoAbove(msg) ==
    IF RespondMatch(msg)
    THEN IF msg.tenths > 600
         THEN Minutes(WholeMinutes(msg.tenths))
         ELSE FewSeconds
    ELSE NoHint

\* Lines 135-146 of respond.
RespondRetryInfo(msg) ==
    IF RespondMatch(msg)
    THEN IF msg.tenths >= 600
         THEN Minutes(WholeMinutes(msg.tenths))
         ELSE FewSeconds
    ELSE NoHint

\* '"retry in" in error_msg.lower()' and then
\* re.search(r'retry in (\d+\.?\d*)s', error_msg), lines 160-164 of main.py.
EndpointMatch(msg) ==
    /\ msg.phrase \in {"retry in", "Retry in"}
    /\ msg.phrase = "retry in" /\ msg.digits /\ msg.unit = "s"

\* Lines 159-173 of chatkit_endpoint.
EndpointRetryInfo(msg) ==
    IF EndpointMatch(msg)
    THEN IF WholeMinutes(msg.tenths) > 0
         THEN Minutes(WholeMinutes(msg.tenths))
         ELSE FewSeconds
    ELSE NoHint

NoErrInfo == [msg |-> NoMessage, allow_retry |-> FALSE,
              raised_hint |-> NoHint, observed_hint |-> NoHint]

\* Faulty variant: the converted error does not allow a retry.
ErrInfoNoRetry(phase, kind, msg, in_stream) ==
    LET exc == RespondRaises(phase, kind)
        hint == IF exc = "CustomStreamError" THEN RespondRetryInfo(msg) ELSE NoHint
    IN  [msg |-> msg, allow_retry |-> FALSE, raised_hint |-> hint,
         observed_hint |-> hint]

\* The attributes of the exception that leaves respond (allow_retry and the
\* hint in its message, lines 147-150) and the hint in the error the caller
\* observes (lines 175-178 of main.py when chatkit_endpoint converts a
\* RateLimitError).
ErrInfo(phase, kind, msg, in_stream) ==
    LET exc == RespondRaises(phase, kind)
        hint == IF exc = "CustomStreamError" THEN RespondRetryInfo(msg) ELSE NoHint
    IN  [msg |-> msg,
         allow_retry |-> (exc = "CustomStreamError"),
         raised_hint |-> hint,
         observed_hint |->
             IF in_stream THEN hint
             ELSE IF EndpointRaises(exc) = "QuotaExceededError"
                  THEN EndpointRetryInfo(msg) ELSE NoHint]

\* The classified errors, by the class that carries each kind.
ClassifiedAs ==
    [QuotaExceeded          |-> {"CustomStreamError", "QuotaExceededError"},
     StorageFailure         |-> {"StorageError"},
     UpstreamServiceFailure |-> {"MCPError"},
     MalformedInput         |-> {"HTTPException400"},
     AgentFailure           |-> {"AgentError"}]
ErrorKinds == DOMAIN ClassifiedAs

\* Faulty variant: the agent is created before the history is loaded.
RespondStepsAgentFirst == <<"agent", "history", "convert", "streaming">>

\* The awaited steps of respond in the order of its body: load_thread_items
\* (lines 69-75), create_agent_for_user (82-85), simple_to_agent_input and
\* Runner.run_streamed (94-106), then the stream loop (124-132).
RespondSteps == <<"history", "agent", "convert", "streaming">>

\* The step respond is at once step `phase` has returned.
StepAfter(phase) ==
    LET i == CHOOSE k \in 1..Len(RespondSteps) : RespondSteps[k] = phase
    IN  IF i < Len(RespondSteps) THEN RespondSteps[i + 1] ELSE "done"

\* respond is called.
StartRun ==
    /\ rphase = "idle"
    /\ runNo < MaxRuns
    /\ runNo' = runNo + 1
    /\ rphase' = RespondSteps[1]
    /\ \E s \in BOOLEAN : streamed' = s
    /\ inp' = <<>> /\ out' = <<>>
    /\ fake_id' = NoId
    /\ genCalls' = 0
    /\ rawFailure' = NoFailure
    /\ raised' = "none"
    /\ observed' = "none"
    /\ errInfo' = NoErrInfo
    /\ steps' = <<>>
    /\ UNCHANGED <<nextItemId, cacheVars, closeVars, concVars, inputVars,
                   dbVars, authVars>>

\* "await self.store.load_thread_items(...)" returns (lines 69-75).
HistoryLoaded ==
    /\ rphase = "history"
    /\ rphase' = StepAfter("history")
    /\ steps' = Append(steps, "history")
    /\ UNCHANGED <<runNo, streamed, inp, out, fake_id, genCalls, nextItemId,
                   rawFailure, raised, observed, errInfo, cacheVars, closeVars,
                   concVars, inputVars,
                   dbVars, authVars>>

\* "await create_agent_for_user(...)" returns (lines 82-85).
AgentCreated ==
    /\ rphase = "agent"
    /\ rphase' = StepAfter("agent")
    /\ steps' = Append(steps, "agent")
    /\ UNCHANGED <<runNo, streamed, inp, out, fake_id, genCalls, nextItemId,
                   rawFailure, raised, observed, errInfo, cacheVars, closeVars,
                   concVars, inputVars,
                   dbVars, authVars>>

\* "await simple_to_agent_input(input_items)" returns and the run is started
\* (lines 94-106).
RunStarted ==
    /\ rphase = "convert"
    /\ rphase' = StepAfter("convert")
    /\ steps' = Append(steps, "convert")
    /\ UNCHANGED <<runNo, streamed, inp, out, fake_id, genCalls, nextItemId,
                   rawFailure, raised, observed, errInfo, cacheVars, closeVars,
                   concVars, inputVars,
                   dbVars, authVars>>

\* The model run produces an event; respond rewrites and yields it.
StreamEvent(event) ==
    /\ rphase = "streaming"
    /\ Len(inp) < MaxEvents
    /\ LET r == Rewrite(event, fake_id, nextItemId) IN
       /\ inp' = Append(inp, event)
       /\ out' = Forward(out, [type |-> event.type, id |-> r.id])
       /\ fake_id' = r.fake_id
       /\ genCalls' = IF r.generated THEN genCalls + 1 ELSE genCalls
       /\ nextItemId' = IF r.generated THEN nextItemId + 1 ELSE nextItemId
    /\ UNCHANGED <<rphase, runNo, streamed, rawFailure, raised, observed,
                   errInfo, steps, cacheVars, closeVars, concVars, inputVars,
                   dbVars, authVars>>

\* The model run ends; respond returns (lines 152-155).
StreamEnd ==
    /\ rphase = "streaming"
    /\ rphase' = "done"
    /\ UNCHANGED <<runNo, streamed, inp, out, fake_id, genCalls, nextItemId,
                   rawFailure, raised, observed, errInfo, steps, cacheVars, closeVars, concVars, inputVars,
                   dbVars, authVars>>

\* The step respond is at raises an exception of class `kind` whose str() is
\* `msg`.
RunFails(kind, msg) ==
    /\ rphase \in Phases
    /\ rphase' = "failed"
    /\ rawFailure' = [phase |-> rphase, kind |-> kind]
    /\ raised' = RespondRaises(rphase, kind)
    /\ observed' = Observed(RespondRaises(rphase, kind), streamed)
    /\ errInfo' = ErrInfo(rphase, kind, msg, streamed)
    /\ UNCHANGED <<runNo, streamed, inp, out, fake_id, genCalls, nextItemId,
                   steps, cacheVars, closeVars, concVars, inputVars,
                   dbVars, authVars>>

\* The request is over; the server is ready for the next one.
RunOver ==
    /\ rphase \in {"done", "failed"}
    /\ rphase' = "idle"
    /\ UNCHANGED <<runNo, streamed, inp, out, fake_id, genCalls, nextItemId,
                   rawFailure, raised, observed, errInfo, steps, cacheVars, closeVars, concVars, inputVars,
                   dbVars, authVars>>

RunIdle ==
    /\ rphase = "idle"
    /\ runNo = 0
    /\ streamed = FALSE
    /\ inp = <<>> /\ out = <<>>
    /\ fake_id = NoId
    /\ genCalls = 0
    /\ nextItemId = 1
    /\ rawFailure = NoFailure
    /\ raised = "none"
    /\ observed = "none"
    /\ errInfo = NoErrInfo
    /\ steps = <<>>

RunNext ==
    \/ StartRun
    \/ HistoryLoaded
    \/ AgentCreated
    \/ RunStarted
    \/ \E event \in UpstreamEvents : StreamEvent(event)
    \/ StreamEnd
    \/ \E kind \in FailureKinds : \E msg \in MessagesOf(kind) : RunFails(kind, msg)
    \/ RunOver

(***************************************************************************)
(* _safe_close_mcp_client, statement by statement.                         *)
(***************************************************************************)
\* What getattr(client, method_name, None) and the call of the method do: the
\* client has no such attribute; the call returns a plain value; it returns an
\* awaitable, which is awaited and completes; the call raises an Exception;
\* or the awaitable it returned raises one when awaited (lines 37-43).
Behaviours == {"absent", "returns", "awaited", "raises", "await_raises"}
Returning == {"returns", "awaited"}
Raising == {"raises", "await_raises"}
ClientShapes == [Methods -> Behaviours]
NoShape == [m \in Methods |-> "absent"]

\* "await _safe_close_mcp_client(client)" is called on a client.
SafeCloseCall(shape) ==
    /\ closeState = "idle"
    /\ closeState' = "probing"
    /\ closeShape' = shape
    /\ closeIdx' = 1
    /\ closeInvoked' = <<>>
    /\ closedVia' = "none"
    /\ UNCHANGED <<cacheVars, runVars, concVars, inputVars,
                   dbVars, authVars>>

\* Lines 37-39: the client has no attribute of this name; continue.
ProbeAbsent ==
    /\ closeState = "probing" /\ closeIdx <= Len(CloseOrder)
    /\ closeShape[CloseOrder[closeIdx]] = "absent"
    /\ closeIdx' = closeIdx + 1
    /\ UNCHANGED <<closeState, closeShape, closeInvoked, closedVia,
                   cacheVars, runVars, concVars, inputVars,
                   dbVars, authVars>>

\* A faulty variant of InvokeReturns: the "return" of line 45 is missing, so
\* the loop goes on with the next name after a method has returned normally.
InvokeReturnsGoesOn ==
    /\ closeState = "probing" /\ closeIdx <= Len(CloseOrder)
    /\ closeShape[CloseOrder[closeIdx]] \in Returning
    /\ closeInvoked' = Append(closeInvoked, CloseOrder[closeIdx])
    /\ closedVia' = CloseOrder[closeIdx]
    /\ closeIdx' = closeIdx + 1
    /\ UNCHANGED <<closeState, closeShape, cacheVars, runVars, concVars, inputVars,
                   dbVars, authVars>>

\* Lines 40-45: the method is called, its result awaited, and the close
\* returns.
InvokeReturns ==
    /\ closeState = "probing" /\ closeIdx <= Len(CloseOrder)
    /\ closeShape[CloseOrder[closeIdx]] \in Returning
    /\ closeInvoked' = Append(closeInvoked, CloseOrder[closeIdx])
    /\ closedVia' = CloseOrder[closeIdx]
    /\ closeState' = "returned"
    /\ UNCHANGED <<closeShape, closeIdx, cacheVars, runVars, concVars, inputVars,
                   dbVars, authVars>>

\* Lines 40-47: the method raises; the exception is logged and the loop goes
\* on with the next name.
InvokeRaises ==
    /\ closeState = "probing" /\ closeIdx <= Len(CloseOrder)
    /\ closeShape[CloseOrder[closeIdx]] \in Raising
    /\ closeInvoked' = Append(closeInvoked, CloseOrder[closeIdx])
    /\ closeIdx' = closeIdx + 1
    /\ UNCHANGED <<closeState, closeShape, closedVia, cacheVars, runVars, concVars, inputVars,
                   dbVars, authVars>>

\* The for loop is exhausted: the function returns None.
ProbeEnds ==
    /\ closeState = "probing" /\ closeIdx > Len(CloseOrder)
    /\ closeState' = "returned"
    /\ UNCHANGED <<closeShape, closeIdx, closeInvoked, closedVia,
                   cacheVars, runVars, concVars, inputVars,
                   dbVars, authVars>>

\* The caller goes on; the next close may be called.
SafeCloseOver ==
    /\ closeState = "returned"
    /\ closeState' = "idle"
    /\ closeShape' = NoShape
    /\ closeIdx' = 0
    /\ closeInvoked' = <<>>
    /\ closedVia' = "none"
    /\ UNCHANGED <<cacheVars, runVars, concVars, inputVars,
                   dbVars, authVars>>

CloseIdle ==
    /\ closeState = "idle"
    /\ closeShape = NoShape
    /\ closeIdx = 0
    /\ closeInvoked = <<>>
    /\ closedVia = "none"

CloseNext ==
    \/ \E shape \in ClientShapes : SafeCloseCall(shape)
    \/ ProbeAbsent
    \/ InvokeReturns
    \/ InvokeRaises
    \/ ProbeEnds
    \/ SafeCloseOver

(***************************************************************************)
(* Overlapping runs of respond.                                            *)
(***************************************************************************)
Responders == {"p", "q"}

\* Everything of one run but the store's identifier counter.
runLocals == <<rphase, runNo, streamed, inp, out, fake_id, genCalls,
               rawFailure, raised, observed, errInfo, steps>>

\* Faulty variant: fake_id is shared by the invocations (an attribute of the
\* server rather than a local of respond).
SharedFakeId(fids, r) ==
    LET set == {fids[x] : x \in DOMAIN fids} \ {NoId}
    IN  IF set = {} THEN NoId ELSE CHOOSE id \in set : TRUE

\* "fake_id: str | None = None" (line 111) is a local of the invocation, which
\* remap_fake_id reads and writes as a nonlocal.
LocalFakeId(fids, r) == fids[r]

\* respond is called while other invocations may be in progress.
ConcStart(r) ==
    /\ cphase[r] = "idle"
    /\ cstarted < MaxRuns
    /\ cstarted' = cstarted + 1
    /\ cinst' = [cinst EXCEPT ![r] = cstarted + 1]
    /\ cphase' = [cphase EXCEPT ![r] = "streaming"]
    /\ cfake' = [cfake EXCEPT ![r] = NoId]
    /\ cout' = [cout EXCEPT ![r] = <<>>]
    /\ UNCHANGED <<cids, nextItemId, runLocals, cacheVars, closeVars, inputVars,
                   dbVars, authVars>>

\* The events of concurrent runs: the item events, and the events that carry
\* no identifier.
ConcUpstreamEvents ==
    {e \in UpstreamEvents : e.type \in ItemEventTypes \/ e.id = NoId}

\* The model run of invocation r produces an event; r rewrites and yields it.
ConcEvent(r, event) ==
    /\ cphase[r] = "streaming"
    /\ Len(cout[r]) < MaxEvents
    /\ LET rw == Rewrite(event, LocalFakeId(cfake, r), nextItemId) IN
       /\ cfake' = [cfake EXCEPT ![r] = rw.fake_id]
       /\ cout' = [cout EXCEPT ![r] =
                      Forward(cout[r], rw.id)]
       /\ nextItemId' = IF rw.generated THEN nextItemId + 1 ELSE nextItemId
       /\ cids' = IF rw.generated
                  THEN Append(cids, [run |-> cinst[r], id |-> rw.id])
                  ELSE cids
    /\ UNCHANGED <<cphase, cinst, cstarted, runLocals, cacheVars, closeVars, inputVars,
                   dbVars, authVars>>

\* The run of invocation r ends.
ConcEnd(r) ==
    /\ cphase[r] = "streaming"
    /\ cphase' = [cphase EXCEPT ![r] = "idle"]
    /\ UNCHANGED <<cinst, cstarted, cfake, cout, cids, runVars, cacheVars,
                   closeVars, inputVars,
                   dbVars, authVars>>

ConcIdle ==
    /\ cphase = [r \in Responders |-> "idle"]
    /\ cinst = [r \in Responders |-> 0]
    /\ cstarted = 0
    /\ cfake = [r \in Responders |-> NoId]
    /\ cout = [r \in Responders |-> <<>>]
    /\ cids = <<>>

ConcNext ==
    \/ \E r \in Responders : ConcStart(r)
    \/ \E r \in Responders : \E event \in ConcUpstreamEvents : ConcEvent(r, event)
    \/ \E r \in Responders : ConcEnd(r)

vars == <<cacheVars, runVars, closeVars, concVars, inputVars, dbVars,
          authVars>>

\* The connection cache under concurrent requests.
(***************************************************************************)
(* The input of the model run: ChatbotServer.respond, lines 68-94.         *)
(***************************************************************************)
MaxStored == 22        \* items a stored thread holds

\* "limit=20" (line 72).
HISTORY_LIMIT == 20

\* Items are records: their position in the thread and who wrote them.
NoItem == [n |-> 0, role |-> "None"]
StoredItem(i) == [n |-> i, role |-> IF i % 2 = 1 THEN "user" ELSE "assistant"]
StoredThreads == {[i \in 1..n |-> StoredItem(i)] : n \in 0..MaxStored}
NewMessage(stored) == [n |-> Len(stored) + 1, role |-> "user"]

\* store.load_thread_items(thread.id, after=None, limit=..., order="asc"):
\* the most recent `limit` items of the thread, oldest of them first.
load_thread_items(stored, limit) ==
    LET k == IF Len(stored) < limit THEN Len(stored) ELSE limit
    IN  [i \in 1..k |-> stored[Len(stored) - k + i]]

\* Faulty variant: the message is appended to the loaded list in place.
BuildInputInPlace(data, message) ==
    IF message # NoItem
    THEN [input_items |-> Append(data, message), data |-> Append(data, message)]
    ELSE [input_items |-> data, data |-> data]

\* Lines 88-90: "input_items = items_page.data", then, if input_message,
\* "input_items = input_items + [input_message]", which builds a new list.
\* The result is input_items and items_page.data after the statements.
BuildInput(data, message) ==
    IF message # NoItem
    THEN [input_items |-> data \o <<message>>, data |-> data]
    ELSE [input_items |-> data, data |-> data]

\* "await self.store.load_thread_items(...)" returns (lines 69-75).
LoadHistory ==
    /\ ipc = "called"
    /\ ipc' = "loaded"
    /\ items_page' = load_thread_items(thread, HISTORY_LIMIT)
    /\ UNCHANGED <<thread, input_message, input_items, cacheVars, runVars,
                   closeVars, concVars, dbVars, authVars>>

\* Lines 88-90.
PrepareInput ==
    /\ ipc = "loaded"
    /\ ipc' = "built"
    /\ LET b == BuildInput(items_page, input_message) IN
       /\ input_items' = b.input_items
       /\ items_page' = b.data
    /\ UNCHANGED <<thread, input_message, cacheVars, runVars, closeVars,
                   concVars, dbVars, authVars>>

InputIdle ==
    /\ ipc = "idle"
    /\ thread = <<>>
    /\ input_message = NoItem
    /\ items_page = <<>>
    /\ input_items = <<>>

\* respond is called on a thread of any length, with or without a message.
InputCalled ==
    /\ ipc = "called"
    /\ thread \in StoredThreads
    /\ input_message \in {NoItem, NewMessage(thread)}
    /\ items_page = <<>>
    /\ input_items = <<>>

InputNext == LoadHistory \/ PrepareInput

(***************************************************************************)
(* The task database: src/backend/src/models (User, Task).                 *)
(***************************************************************************)
MaxTaskIds == 4        \* values drawn from the sequence of tasks.id

DbUsers == {"alice", "bob"}        \* values of users.id
NULL == "NULL"
NoStatement == [stmt |-> "none", arg |-> NULL, result |-> "none", deleted |-> 0]

\* "nullable=False" (task.py line 65): user_id is NOT NULL.
NotNullViolated(user_id) == user_id = NULL

\* Faulty variant: user_id is not checked against users.
ForeignKeyUnchecked(us, user_id) == FALSE

\* ForeignKey("users.id") (task.py line 64): user_id names a row of users.
ForeignKeyViolated(us, user_id) == user_id # NULL /\ user_id \notin us

\* Faulty variant: the tasks of a deleted user are left in place.
CascadeNone(ts, u) == ts

\* ondelete="CASCADE" (task.py line 64): the tasks that remain when the row
\* u of users is deleted.
Cascade(ts, u) == {t \in ts : t.user_id # u}

\* Faulty variant: the id is one more than the highest id in the table, so
\* the id of a deleted last row is given out again.
nextval_of_table(seq, ts) ==
    IF ts = {} THEN 1
    ELSE (CHOOSE i \in {t.id : t \in ts} : \A t \in ts : t.id <= i) + 1

\* The default of tasks.id (task.py lines 48-57): BigInteger with
\* autoincrement is a BIGSERIAL, whose sequence starts at 1, counts on by one
\* and takes no account of the rows of the table.
nextval(seq, ts) == seq + 1

\* INSERT INTO users: users.id is the primary key (user.py lines 41-44).
InsertUser(u) ==
    /\ IF u \in users
       THEN /\ dbLast' = [stmt |-> "insert_user", arg |-> u,
                          result |-> "IntegrityError", deleted |-> 0]
            /\ UNCHANGED users
       ELSE /\ dbLast' = [stmt |-> "insert_user", arg |-> u, result |-> "ok",
                          deleted |-> 0]
            /\ users' = users \cup {u}
    /\ UNCHANGED <<tasks, task_id_seq, assigned, cacheVars, runVars, closeVars,
                   concVars, inputVars, authVars>>

\* INSERT INTO tasks with the given user_id.  The id is drawn from the
\* sequence (task.py lines 48-57) before the constraints are checked, and a
\* value drawn is not given back when the statement fails.
InsertTask(user_id) ==
    /\ task_id_seq < MaxTaskIds
    /\ task_id_seq' = nextval(task_id_seq, tasks)
    /\ IF NotNullViolated(user_id) \/ ForeignKeyViolated(users, user_id)
       THEN /\ dbLast' = [stmt |-> "insert_task", arg |-> user_id,
                          result |-> "IntegrityError", deleted |-> 0]
            /\ UNCHANGED <<tasks, assigned>>
       ELSE /\ dbLast' = [stmt |-> "insert_task", arg |-> user_id,
                          result |-> "ok", deleted |-> 0]
            /\ tasks' = tasks \cup {[id |-> nextval(task_id_seq, tasks),
                                     user_id |-> user_id]}
            /\ assigned' = assigned \cup {nextval(task_id_seq, tasks)}
    /\ UNCHANGED <<users, cacheVars, runVars, closeVars, concVars, inputVars, authVars>>

\* DELETE FROM users WHERE id = u, for a row that exists.
DeleteUser(u) ==
    /\ u \in users
    /\ users' = users \ {u}
    /\ tasks' = Cascade(tasks, u)
    /\ dbLast' = [stmt |-> "delete_user", arg |-> u, result |-> "ok",
                  deleted |-> Cardinality(tasks \ Cascade(tasks, u))]
    /\ UNCHANGED <<task_id_seq, assigned, cacheVars, runVars, closeVars,
                   concVars, inputVars, authVars>>

\* DELETE FROM tasks WHERE id = t.id, for a row that exists.
DeleteTask(t) ==
    /\ t \in tasks
    /\ tasks' = tasks \ {t}
    /\ dbLast' = [stmt |-> "delete_task", arg |-> t.user_id, result |-> "ok",
                  deleted |-> 1]
    /\ UNCHANGED <<users, task_id_seq, assigned, cacheVars, runVars, closeVars,
                   concVars, inputVars, authVars>>

\* The tables after the migrations: empty.
DbIdle ==
    /\ users = {}
    /\ tasks = {}
    /\ task_id_seq = 0
    /\ dbLast = NoStatement
    /\ assigned = {}

DbNext ==
    \/ \E u \in DbUsers : InsertUser(u)
    \/ \E user_id \in DbUsers \cup {NULL} : InsertTask(user_id)
    \/ \E u \in DbUsers : DeleteUser(u)
    \/ \E t \in tasks : DeleteTask(t)

(***************************************************************************)
(* The authorization dependencies of the task API: api/deps.py.            *)
(***************************************************************************)
None == "None"
\* Values of a user id: two users, the empty string and None.
AuthUserIds == {"alice", "bob"}
SessionUserIds == AuthUserIds \cup {"", None}
PathUserIds == AuthUserIds \cup {""}

\* What the lookup of the bearer token in the session table gives (lines
\* 58-88): no row, a row that has expired, a row in force, or an exception.
SessionLookups == {"no_row", "expired", "valid", "error"}
\* What the lookup of "emailVerified" gives (lines 127-156).
EmailLookups == {"no_row", "false", "true", "error"}

NoSessionData == [userId |-> None, emailVerified |-> FALSE]
Pending == [status |-> "pending", value |-> None]
HTTPException(code) == [status |-> code, value |-> None]
Returns(v) == [status |-> "returned", value |-> v]

\* "if not x" of Python on a user id.
Falsy(x) == x \in {"", None}

\* verify_session_token (lines 51-105): the session data, or 401.
verify_session_token(lookup, userId) ==
    IF lookup = "valid"
    THEN Returns([userId |-> userId, emailVerified |-> FALSE])
    ELSE HTTPException("401")

\* verify_email_verified (lines 119-156).
verify_email_verified(data, lookup) ==
    IF Falsy(data.userId) THEN HTTPException("401")
    ELSE IF lookup = "false" THEN HTTPException("403")
    ELSE IF lookup = "true"
         THEN Returns([data EXCEPT !.emailVerified = TRUE])
         ELSE Returns(data)

\* Faulty variant: the session's userId is not compared with the path.
verify_user_ownership_unchecked(user_id, data) ==
    IF Falsy(data.userId) THEN HTTPException("401")
    ELSE Returns(user_id)

\* verify_user_ownership (lines 192-204).
verify_user_ownership(user_id, data) ==
    IF Falsy(data.userId) THEN HTTPException("401")
    ELSE IF data.userId # user_id THEN HTTPException("403")
    ELSE Returns(user_id)

\* FastAPI resolves Depends(verify_session_token) (line 109).
SessionVerified ==
    /\ apc = "request"
    /\ LET r == verify_session_token(session_lookup, session_userId) IN
       IF r.status = "returned"
       THEN /\ session_data' = r.value
            /\ apc' = "session"
            /\ UNCHANGED response
       ELSE /\ response' = r
            /\ apc' = "done"
            /\ UNCHANGED session_data
    /\ UNCHANGED <<path_user_id, session_lookup, session_userId, email_lookup,
                   cacheVars, runVars, closeVars, concVars, inputVars, dbVars>>

\* FastAPI resolves Depends(verify_email_verified) (line 160).
EmailVerified ==
    /\ apc = "session"
    /\ LET r == verify_email_verified(session_data, email_lookup) IN
       IF r.status = "returned"
       THEN /\ session_data' = r.value
            /\ apc' = "email"
            /\ UNCHANGED response
       ELSE /\ response' = r
            /\ apc' = "done"
            /\ UNCHANGED session_data
    /\ UNCHANGED <<path_user_id, session_lookup, session_userId, email_lookup,
                   cacheVars, runVars, closeVars, concVars, inputVars, dbVars>>

\* verify_user_ownership runs on the path parameter and the session data.
OwnershipVerified ==
    /\ apc = "email"
    /\ response' = verify_user_ownership(path_user_id, session_data)
    /\ apc' = "done"
    /\ UNCHANGED <<path_user_id, session_lookup, session_userId, email_lookup,
                   session_data, cacheVars, runVars, closeVars, concVars,
                   inputVars, dbVars>>

AuthIdle ==
    /\ apc = "idle"
    /\ path_user_id = ""
    /\ session_lookup = "no_row"
    /\ session_userId = None
    /\ email_lookup = "no_row"
    /\ session_data = NoSessionData
    /\ response = Pending

\* A request arrives for /api/{user_id}/... with a bearer token.
AuthRequest ==
    /\ apc = "request"
    /\ path_user_id \in PathUserIds
    /\ session_lookup \in SessionLookups
    /\ session_userId \in SessionUserIds
    /\ email_lookup \in EmailLookups
    /\ session_data = NoSessionData
    /\ response = Pending

AuthNext == SessionVerified \/ EmailVerified \/ OwnershipVerified

Init ==
    CacheInit /\ RunIdle /\ CloseIdle /\ ConcIdle /\ InputIdle /\ DbIdle
        /\ AuthIdle

RunInit ==
    CacheInit /\ RunIdle /\ CloseIdle /\ ConcIdle /\ InputIdle /\ DbIdle
        /\ AuthIdle

CloseInit ==
    CacheInit /\ RunIdle /\ CloseIdle /\ ConcIdle /\ InputIdle /\ DbIdle
        /\ AuthIdle

ConcInit ==
    CacheInit /\ RunIdle /\ CloseIdle /\ ConcIdle /\ InputIdle /\ DbIdle
        /\ AuthIdle

Next == CacheNext

Spec == Init /\ [][Next]_vars

\* The cache under the scheduling of the event loop: releasing the lock wakes
\* its first waiter, which then runs, and a connect that was awaited returns
\* or raises.
\* The requests are those of one user, who holds two credentials.
LiveUsers == {"u1"}

LiveInit ==
    CacheInit /\ RunIdle /\ CloseIdle /\ ConcIdle /\ InputIdle /\ DbIdle
        /\ AuthIdle

LiveNext ==
    \/ \E t \in Tasks, token \in Tokens :
          /\ TokenOwner[token] \in LiveUsers
          /\ AcquireCall(t, TokenOwner[token], token)
    \/ \E t \in Tasks, u \in LiveUsers : InvalidateCall(t, u)
    \/ \E t \in Tasks : LockGranted(t)
    \/ \E t \in Tasks : ConnectOK(t)
    \/ \E t \in Tasks : ConnectFail(t)
    \/ \E t \in Tasks : Finish(t)
    \/ Tick

LiveSpec ==
    /\ LiveInit /\ [][LiveNext]_vars
    /\ \A t \in Tasks : /\ WF_vars(LockGranted(t))
                         /\ WF_vars(ConnectOK(t) \/ ConnectFail(t))

\* The cache through the life of the process, up to its shutdown.
ShutdownInit ==
    CacheInit /\ RunIdle /\ CloseIdle /\ ConcIdle /\ InputIdle /\ DbIdle
        /\ AuthIdle

ShutdownNext == CacheNext \/ Shutdown

ShutdownSpec == ShutdownInit /\ [][ShutdownNext]_vars

\* The input of one model run, over every stored thread.
InputInit ==
    CacheInit /\ RunIdle /\ CloseIdle /\ ConcIdle /\ InputCalled /\ DbIdle
        /\ AuthIdle

InputSpec == InputInit /\ [][InputNext]_vars

\* The statements the application and its tests run on the two tables.
DbInit ==
    CacheInit /\ RunIdle /\ CloseIdle /\ ConcIdle /\ InputIdle /\ DbIdle
        /\ AuthIdle

DbSpec == DbInit /\ [][DbNext]_vars

\* One request to the task API, over every path and session.
AuthInit ==
    CacheInit /\ RunIdle /\ CloseIdle /\ ConcIdle /\ InputIdle /\ DbIdle
        /\ AuthRequest

AuthSpec == AuthInit /\ [][AuthNext]_vars

\* The orchestrator, one run after another.
RunSpec == RunInit /\ [][RunNext]_vars

\* One close after another, over every shape of client.
CloseSpec == CloseInit /\ [][CloseNext]_vars

\* Runs that overlap, sharing the store.
ConcSpec == ConcInit /\ [][ConcNext]_vars

TypeOK ==
    /\ clock \in 0..(MaxTicks * TickStep)
    /\ DOMAIN cache \subseteq Users
    /\ \A u \in DOMAIN cache : cache[u].client \in 1..Len(clients)
    /\ lockHolder \in Tasks \cup {NoTask}
    /\ pc \in [Tasks -> {"idle", "wait", "connecting", "running", "raised",
                       "invalidated", "stopped"}]
    /\ Len(clients) <= MaxClients

(***************************************************************************)
(* Properties of the connection cache.                                     *)
(***************************************************************************)
ClientIds == 1..Len(clients)
ClientsOf(u) == {k \in ClientIds : clients[k].user = u}
AcquireCallsOf(u) == {t \in Tasks : op[t].kind = "acquire" /\ op[t].user = u}

\* Every cache call so far was an acquire, the calls all overlapped (none
\* started after another had returned), the ones of user u carried one
\* credential, and no connect of a client of u failed.
ConcurrentSameKey(u) ==
    /\ scenario # "broken"
    /\ Cardinality({op[t].token : t \in AcquireCallsOf(u)}
                   \cup {clients[k].token : k \in ClientsOf(u)}) <= 1
    /\ \A k \in ClientsOf(u) : clients[k].state # "failed"

OneClientServesAll(u) ==
    /\ Cardinality(ClientsOf(u)) <= 1
    /\ \A t \in AcquireCallsOf(u) :
          pc[t] = "running" => result[t] \in ClientsOf(u)

\* C1 as stated: concurrent acquire calls with one user identity and one
\* credential, starting from an empty cache and with connect succeeding,
\* perform exactly one connect and all receive that client.
C1_ExactlyOneConnect ==
    \A u \in Users : ConcurrentSameKey(u) => OneClientServesAll(u)

\* C1, amended: the same, provided the entry is not idle-evicted while the
\* calls are in progress (no close has been attempted on a client of u).
C1_OneConnectUnlessEvicted ==
    \A u \in Users :
        (ConcurrentSameKey(u) /\ \A k \in ClientsOf(u) : clients[k].closes = 0)
            => OneClientServesAll(u)

\* Two overlapping calls for one user and credential were both served by
\* the one client that was connected.
C1_Witness ==
    \E u \in Users :
        /\ ConcurrentSameKey(u)
        /\ AcquireCallsOf(u) = Tasks
        /\ \A t \in Tasks : pc[t] = "running"
        /\ Cardinality(ClientsOf(u)) = 1
        /\ \A t1, t2 \in Tasks : result[t1] = result[t2] /\ result[t1] \in ClientsOf(u)
        /\ \A k \in ClientsOf(u) : clients[k].closes = 0

\* C2 as stated: each user has at most one client that has been connected
\* and is not yet closed.
C2_AtMostOneOpen ==
    \A u \in Users : Cardinality({k \in ClientsOf(u) : clients[k].open}) <= 1

\* C2, amended: each user has at most one connected client on which no close
\* has been attempted (a close whose shutdown operations all raise, or that
\* finds none, leaves the client open).
C2_AtMostOneUnclosed ==
    \A u \in Users :
        Cardinality({k \in ClientsOf(u) :
                        clients[k].state = "connected" /\ clients[k].closes = 0}) <= 1

\* After a credential replacement, the user has a client that was closed and
\* a second, connected one.
C2_Witness ==
    \E u \in Users : \E k1, k2 \in ClientsOf(u) :
        /\ clients[k1].state = "connected" /\ clients[k1].closedBy = "refresh"
        /\ ~clients[k1].open
        /\ clients[k2].state = "connected" /\ clients[k2].closes = 0
        /\ clients[k2].open

\* C3: when acquire(user, credB) follows a successful acquire(user, credA)
\* and connects, the credA client has been closed exactly once (one run of
\* _safe_close_mcp_client, by the replacement itself if the credA entry was
\* still cached), and the call returns a newly connected client bound to
\* credB, which is the entry now cached for the user.
C3_ReplaceClosesOnceAndReturnsNew ==
    [][\A t \in Tasks :
         (pc[t] = "connecting" /\ pc'[t] = "running") =>
            LET o == op[t] IN
            /\ \A k \in ClientsOf(o.user) :
                  (clients[k].state = "connected" /\ clients[k].token # o.token)
                      => clients'[k].closes = 1
            /\ o.stale # 0 =>
                  /\ clients[o.stale].state = "connected"
                  /\ clients[o.stale].user = o.user
                  /\ clients[o.stale].token # o.token
                  /\ clients'[o.stale].closedBy = "refresh"
            /\ result'[t] = o.new
            /\ o.new # o.stale
            /\ clients[o.new].state = "connecting"
            /\ clients'[o.new].state = "connected"
            /\ clients'[o.new].token = o.token
            /\ clients'[o.new].user = o.user
            /\ o.user \in DOMAIN cache'
            /\ cache'[o.user].client = o.new
            /\ cache'[o.user].token = o.token]_vars

\* A request runs on the credB client that replaced the credA client.
C3_Witness ==
    \E t \in Tasks :
        /\ pc[t] = "running" /\ op[t].stale # 0
        /\ clients[op[t].stale].closedBy = "refresh"
        /\ clients[op[t].stale].token = "credA"
        /\ op[t].token = "credB"
        /\ result[t] = op[t].new
        /\ op[t].user \in DOMAIN cache
        /\ cache[op[t].user].client = op[t].new

\* C4 as stated: a client handed to a request is never closed while the
\* request is still using it for its model run.
C4_NeverClosedWhileInUse ==
    \A t \in Tasks : pc[t] = "running" => clients[result[t]].closes = 0

\* C5 as stated: a connect failure on the credential-replacement path leaves
\* the prior entry cached and its client unclosed.
C5_FailedRefreshKeepsOldEntry ==
    [][\A t \in Tasks :
         (pc[t] = "connecting" /\ pc'[t] = "raised" /\ op[t].stale # 0) =>
            /\ op[t].user \in DOMAIN cache'
            /\ cache'[op[t].user].client = op[t].stale
            /\ clients'[op[t].stale].closes = 0]_vars

\* C6: no cache entry references a client whose connect failed; when connect
\* raises, no entry is stored for the user, a close is attempted on the new
\* client, the call raises, and no further client is connected in the call.
C6_NoEntryForFailedConnect ==
    /\ [](\A u \in DOMAIN cache : clients[cache[u].client].state = "connected")
    /\ [][\A t \in Tasks :
            (pc[t] = "connecting" /\ clients'[op[t].new].state = "failed") =>
               /\ cache' = cache
               /\ op[t].user \notin DOMAIN cache'
               /\ clients'[op[t].new].closes = 1
               /\ pc'[t] = "raised"
               /\ result'[t] = -1
               /\ Len(clients') = Len(clients)
               /\ lockHolder' = NoTask]_vars

\* An acquire has raised after its connect failed.
C6_Witness ==
    \E t \in Tasks :
        /\ pc[t] = "raised"
        /\ clients[op[t].new].state = "failed"
        /\ clients[op[t].new].closedBy = "connect_failed"
        /\ op[t].user \notin DOMAIN cache

\* Task t goes through the locked section of a cache operation in this step.
RunsLocked(t) ==
    /\ pc[t] \in {"idle", "wait"}
    /\ pc'[t] \in {"running", "connecting", "invalidated"}

\* The timestamp get_or_create_mcp_client read at line 84: now, if the call
\* takes the lock at once, or when it began to wait.
CapturedNow(t) == IF pc[t] = "wait" THEN op[t].now ELSE clock

Evicted(u) ==
    /\ u \notin DOMAIN cache'
    /\ clients'[cache[u].client].closes = 1

C10_EntryTokenIsLastAcquired ==
    \A u \in DOMAIN cache : cache[u].token = lastAcq[u]

\* The entry of a user was replaced: it holds credB, the credential last
\* acquired with, after a credA client was closed.
C10_Witness ==
    \E u \in DOMAIN cache :
        /\ cache[u].token = "credB" /\ lastAcq[u] = "credB"
        /\ \E k \in ClientsOf(u) :
              clients[k].token = "credA" /\ clients[k].closedBy = "refresh"

\* Task t runs the locked section of acquire(u, token) in this step and finds
\* an entry of u that holds the same credential and is not idle-expired at
\* the timestamp the call captured.
FindsLiveEntry(t, u) ==
    /\ RunsLocked(t)
    /\ op'[t].kind = "acquire" /\ op'[t].user = u
    /\ u \in DOMAIN cache
    /\ cache[u].token = op'[t].token
    /\ ~(CapturedNow(t) - cache[u].last_used > 600)

ServesCached(t, u) ==
    /\ pc'[t] = "running"
    /\ result'[t] = cache[u].client
    /\ Len(clients') = Len(clients)
    /\ u \in DOMAIN cache'
    /\ cache'[u] = [cache[u] EXCEPT !.last_used = CapturedNow(t)]

\* C14 as stated: an acquire that finds a non-expired entry with the supplied
\* credential returns the cached client, performs no connect and no close,
\* and sets the entry's last_used to the time of the acquisition.
C14_HitNoConnectNoClose ==
    [][\A t \in Tasks : \A u \in Users :
         FindsLiveEntry(t, u) =>
            /\ ServesCached(t, u)
            /\ \A k \in ClientIds : clients'[k].closes = clients[k].closes]_vars

\* C14, amended: such an acquire returns the cached client, performs no connect
\* and no close of that client (its idle sweep may close the expired entries
\* of other users), and sets the entry's last_used to the timestamp the call
\* captured when it started.
C14_HitNoConnectNoCloseOfHit ==
    [][\A t \in Tasks : \A u \in Users :
         FindsLiveEntry(t, u) =>
            /\ ServesCached(t, u)
            /\ clients'[cache[u].client] = clients[cache[u].client]
            /\ clients'[cache[u].client].closes = 0]_vars

\* A request was served the cached client of its user, whose last_used
\* advanced.
C14_Witness ==
    \E t \in Tasks :
        /\ pc[t] = "running" /\ op[t].kind = "acquire" /\ op[t].new = 0
        /\ op[t].user \in DOMAIN cache
        /\ result[t] = cache[op[t].user].client
        /\ cache[op[t].user].last_used > 0
        /\ clients[result[t]].closes = 0

\* Task t runs the locked section of invalidate(u) in this step.
Invalidates(t, u) ==
    /\ RunsLocked(t)
    /\ op'[t].kind = "invalidate" /\ op'[t].user = u

\* C15: when invalidate(user) completes on a user that has a cache entry, the
\* cache holds no entry for the user and one close has been attempted on the
\* client that was cached, whatever its credential and idle age.
C15_InvalidateRemovesAndCloses ==
    [][\A t \in Tasks : \A u \in Users :
         (Invalidates(t, u) /\ u \in DOMAIN cache) =>
            /\ pc'[t] = "invalidated"
            /\ u \notin DOMAIN cache'
            /\ clients'[cache[u].client].closes = clients[cache[u].client].closes + 1
            /\ clients'[cache[u].client].closedBy = "invalidate"
            /\ lockHolder' = NoTask]_vars

\* An invalidate has returned after removing and closing its user's entry.
C15_Witness ==
    \E t \in Tasks :
        /\ pc[t] = "invalidated"
        /\ op[t].user \notin DOMAIN cache
        /\ \E k \in ClientsOf(op[t].user) :
              clients[k].closedBy = "invalidate" /\ clients[k].closes = 1

\* C16: invalidate(user) for a user with no cache entry returns normally,
\* attempts no close on any client and leaves the mapping as it was, the
\* user's entry absent.
C16_InvalidateAbsentIsNoOp ==
    [][\A t \in Tasks : \A u \in Users :
         (Invalidates(t, u) /\ u \notin DOMAIN cache) =>
            /\ pc'[t] = "invalidated"
            /\ clients' = clients
            /\ cache' = cache
            /\ u \notin DOMAIN cache'
            /\ lockHolder' = NoTask]_vars

\* An invalidate has returned for a user no client was ever made for, while
\* another user's entry stays cached and unclosed.
C16_Witness ==
    \E t \in Tasks :
        /\ pc[t] = "invalidated"
        /\ ClientsOf(op[t].user) = {}
        /\ \E u \in DOMAIN cache : clients[cache[u].client].closes = 0

\* The clients on which this step attempted a close none of whose shutdown
\* operations returned (each one raised, or the client had none).
FailedCloses ==
    {k \in ClientIds :
        clients'[k].closes = clients[k].closes + 1 /\ clients'[k].open}

\* C17: when a close attempted by the idle sweep, by invalidate or by a
\* credential replacement fails, the operation does not raise and completes as
\* with a successful close: the closed clients' entries are removed, invalidate
\* returns, a hit is served, and a replacement constructs the new client,
\* which is connected, cached and returned.
C17_CloseFailureNeverPropagates ==
    [][\A t \in Tasks :
         /\ (pc[t] \in {"idle", "wait"} /\ pc'[t] \notin {"idle", "wait"}
                /\ FailedCloses # {}) =>
              /\ pc'[t] \in {"running", "connecting", "invalidated"}
              /\ \A k \in FailedCloses :
                    /\ clients'[k].closedBy \in {"sweep", "refresh", "invalidate"}
                    /\ \A u \in DOMAIN cache' : cache'[u].client # k
              /\ op'[t].kind = "invalidate" =>
                    /\ pc'[t] = "invalidated"
                    /\ op'[t].user \notin DOMAIN cache'
              /\ (op'[t].kind = "acquire" /\ pc'[t] = "running") =>
                    /\ op'[t].user \in DOMAIN cache'
                    /\ result'[t] = cache'[op'[t].user].client
              /\ (op'[t].kind = "acquire" /\ pc'[t] # "running") =>
                    /\ pc'[t] = "connecting"
                    /\ Len(clients') = Len(clients) + 1
                    /\ op'[t].new = Len(clients')
                    /\ clients'[op'[t].new].token = op'[t].token
         /\ (pc[t] = "connecting" /\ pc'[t] = "running" /\ op[t].stale # 0
                /\ clients[op[t].stale].open) =>
              /\ result'[t] = op[t].new
              /\ cache'[op[t].user].client = op[t].new]_vars

\* A request runs on the client that replaced one whose close failed.
C17_Witness ==
    \E t \in Tasks :
        /\ pc[t] = "running" /\ op[t].stale # 0
        /\ clients[op[t].stale].closedBy = "refresh"
        /\ clients[op[t].stale].open
        /\ result[t] = op[t].new
        /\ cache[op[t].user].client = op[t].new

(***************************************************************************)
(* Properties of a close.                                                  *)
(***************************************************************************)
\* The shutdown operations a client has, in a given order.
PresentIn(order, shape) == SelectSeq(order, LAMBDA m : shape[m] # "absent")

C37_AtMostOneOperationInvoked ==
    closeState = "returned" => Len(closeInvoked) <= 1

\* C37, amended: a single close invokes each shutdown operation at most once
\* and none after one has returned normally; it invokes a further operation
\* only when every operation it invoked before raised, so that a close whose
\* first invoked operation returns normally invokes that one alone.
C37_NoOperationAfterNormalReturn ==
    closeState \in {"probing", "returned"} =>
        LET n == Len(closeInvoked)
            normal == {i \in 1..n : closeShape[closeInvoked[i]] \in Returning}
        IN  /\ \A i, j \in 1..n : i # j => closeInvoked[i] # closeInvoked[j]
            /\ Cardinality(normal) <= 1
            /\ \A i \in normal : i = n /\ closeState = "returned"
            /\ n > 1 => \A i \in 1..(n - 1) :
                            closeShape[closeInvoked[i]] \in Raising

\* cleanup raised, so the close went on to close, which returned normally:
\* two operations were invoked and disconnect, which the client has, was not.
C37_Witness ==
    /\ closeState = "returned"
    /\ closeShape["cleanup"] \in Raising
    /\ closeShape["close"] \in Returning
    /\ closeShape["disconnect"] \in Returning
    /\ closeInvoked = <<"cleanup", "close">>
    /\ closedVia = "close"

(***************************************************************************)
(* Properties of the orchestrator.                                         *)
(***************************************************************************)
Placeholders == {i \in 1..Len(inp) :
                    inp[i].type \in ItemEventTypes /\ inp[i].id = FAKE_ID}

\* C7: within one run, every forwarded item-added, item-updated or item-done
\* event whose upstream identifier is the placeholder carries the same single
\* resolved identifier, however many there are.
C7_OneResolvedIdPerRun ==
    /\ Len(out) = Len(inp)
    /\ \A i \in Placeholders :
          /\ out[i].id = fake_id
          /\ out[i].id \notin {FAKE_ID, NoId}
    /\ \A i, j \in Placeholders : out[i].id = out[j].id

\* A run has forwarded three placeholder events, one of each type.
C7_Witness ==
    /\ Cardinality(Placeholders) = 3
    /\ {inp[i].type : i \in Placeholders} = ItemEventTypes
    /\ \A i \in Placeholders : out[i].id = fake_id

\* C8 as stated: every failure raised inside a run reaches the caller as one
\* of QuotaExceeded, StorageFailure, UpstreamServiceFailure, MalformedInput
\* and AgentFailure, never as the raw failure.
C8_EveryFailureClassified ==
    rphase = "failed" =>
        /\ \E e \in ErrorKinds : observed \in ClassifiedAs[e]
        /\ raised \notin FailureKinds

\* A run is in progress or over, and was not reset by the start of the next.
SameRun == runNo' = runNo

\* C11: within one run the forwarded sequence is the upstream sequence with
\* identifiers possibly rewritten: the i-th forwarded event is the i-th
\* upstream event (same type, same identifier unless it was the placeholder),
\* each upstream event is forwarded in the step that produced it, and the
\* events already forwarded are never reordered, duplicated or dropped.
C11_ForwardedInUpstreamOrder ==
    /\ [](/\ Len(out) = Len(inp)
          /\ \A i \in 1..Len(inp) :
                /\ out[i].type = inp[i].type
                /\ i \notin Placeholders => out[i].id = inp[i].id
                /\ i \in Placeholders => out[i].id = fake_id)
    /\ [][SameRun =>
            /\ Len(inp') \in {Len(inp), Len(inp) + 1}
            /\ Len(out') = Len(inp')
            /\ SubSeq(out', 1, Len(out)) = out]_vars

\* A run has forwarded three events that differ in type and in identifier, the
\* placeholder one rewritten.
C11_Witness ==
    /\ Len(out) = 3
    /\ inp[1] = [type |-> "item_added", id |-> FAKE_ID]
    /\ inp[2] = [type |-> "other", id |-> NoId]
    /\ inp[3] = [type |-> "item_done", id |-> UpstreamId]
    /\ out[1].id = fake_id /\ fake_id.kind = "message"
    /\ out[2] = inp[2] /\ out[3] = inp[3]

\* C12: a rate-limit failure raised while the events of the run are consumed,
\* after zero or more events were forwarded, leaves respond as the
\* QuotaExceeded error (CustomStreamError "AI quota exceeded.") with
\* allow_retry = True, and that is the error the consumer of the stream gets.
C12_MidStreamRateLimitIsRetryableQuota ==
    (rphase = "failed"
       /\ rawFailure = [phase |-> "streaming", kind |-> "RateLimitError"]) =>
        /\ raised \in ClassifiedAs.QuotaExceeded
        /\ errInfo.allow_retry
        /\ streamed => observed = raised

\* A streamed run was rate-limited after it had forwarded two events.
C12_Witness ==
    /\ rphase = "failed" /\ streamed
    /\ rawFailure = [phase |-> "streaming", kind |-> "RateLimitError"]
    /\ Len(out) = 2
    /\ raised = "CustomStreamError" /\ errInfo.allow_retry

\* C13 as stated: a failure of the persistence layer during the history load is
\* classified as StorageFailure, and never as AgentFailure.
C13_HistoryStorageFailureClassified ==
    (rphase = "failed"
       /\ rawFailure = [phase |-> "history", kind |-> "SQLAlchemyError"]) =>
        /\ observed \in ClassifiedAs.StorageFailure
        /\ observed \notin ClassifiedAs.AgentFailure

\* The hint a classifier owes a message it reads a value from: whole minutes
\* from 60 seconds on, "a few seconds" below, and none when it reads no value.
HintFor(reads, msg) ==
    IF reads
    THEN IF msg.tenths >= 600
         THEN [text |-> "minutes", minutes |-> msg.tenths \div 600]
         ELSE [text |-> "a few seconds", minutes |-> 0]
    ELSE [text |-> "", minutes |-> 0]

C19_RunsNeverShareResolvedId ==
    /\ \A i, j \in 1..Len(cids) :
          i # j => (cids[i].id # cids[j].id /\ cids[i].run # cids[j].run)
    /\ \A r1, r2 \in Responders :
          (r1 # r2 /\ cfake[r1] # NoId) => cfake[r1] # cfake[r2]
    /\ \A r \in Responders : \A k \in 1..Len(cout[r]) :
          cout[r][k].kind = "message" =>
              /\ cout[r][k] = cfake[r]
              /\ \E i \in 1..Len(cids) :
                    cids[i] = [run |-> cinst[r], id |-> cout[r][k]]

\* Two overlapping runs have each resolved the placeholder, to different
\* identifiers, and gone on forwarding.
C19_Witness ==
    /\ \A r \in Responders :
          /\ cphase[r] = "streaming"
          /\ cfake[r].kind = "message"
          /\ Len(cout[r]) >= 2
          /\ cout[r][2] = cfake[r]
    /\ cfake["p"] # cfake["q"]

\* C21 as stated: a failure during streaming is classified exactly once (what
\* leaves respond is a classified error, and it reaches the caller as that
\* error) and is terminal for the run: no further event is forwarded, the
\* events forwarded stay as delivered, and the run does not end as completed.
C21_StreamFailureClassifiedOnceTerminal ==
    [][(rphase = "failed" /\ rawFailure.phase = "streaming") =>
          /\ raised \notin FailureKinds
          /\ \E e \in ErrorKinds : raised \in ClassifiedAs[e]
          /\ observed = raised
          /\ SameRun => /\ out' = out /\ inp' = inp
                        /\ raised' = raised /\ observed' = observed
                        /\ rphase' \in {"failed", "idle"}]_vars

\* The classified kind the error table gives a failure that is neither a
\* rate-limit nor a storage failure.
TableKind(kind) ==
    IF kind = "HTTPStatusError" THEN "UpstreamServiceFailure"
    ELSE IF kind = "ValidationError" THEN "MalformedInput"
    ELSE "AgentFailure"

\* C22 as stated: a failure that is neither a rate-limit nor a storage failure
\* reaches the caller classified by its kind: UpstreamServiceFailure for a
\* transport-level failure, MalformedInput for a validation failure,
\* AgentFailure for any other.
C22_OtherFailuresClassifiedByKind ==
    (rphase = "failed"
       /\ rawFailure.kind \notin {"RateLimitError", "SQLAlchemyError"}) =>
        observed \in ClassifiedAs[TableKind(rawFailure.kind)]

\* C28: the resolved identifier is generated once per run, by the first
\* rewrite of a placeholder: generate_item_id is called at most once in a run,
\* it has been called exactly when a placeholder has been rewritten, the
\* first rewrite stores the identifier it mints, and every later rewrite
\* returns the stored identifier without another call to the store.
C28_GeneratedOncePerRun ==
    /\ [](/\ genCalls <= 1
          /\ (genCalls = 1) <=> (Placeholders # {})
          /\ (genCalls = 0) <=> (fake_id = NoId))
    /\ [][(rphase = "streaming" /\ Len(inp') = Len(inp) + 1
             /\ inp'[Len(inp')].type \in ItemEventTypes
             /\ inp'[Len(inp')].id = FAKE_ID) =>
            IF fake_id = NoId
            THEN /\ genCalls' = 1
                 /\ fake_id' = generate_item_id(nextItemId)
                 /\ out'[Len(out')].id = fake_id'
                 /\ nextItemId' = nextItemId + 1
            ELSE /\ genCalls' = genCalls
                 /\ nextItemId' = nextItemId
                 /\ fake_id' = fake_id
                 /\ out'[Len(out')].id = fake_id]_vars

\* The second run has rewritten two placeholders that followed an event with
\* a stable identifier, with one call to the store.
C28_Witness ==
    /\ runNo = 2
    /\ Len(inp) = 3
    /\ inp[1].id = UpstreamId
    /\ Placeholders = {2, 3}
    /\ genCalls = 1
    /\ out[2].id = out[3].id

\* C38: the rewrite step changes nothing except sentinel identifiers: an
\* event whose item identifier is not the sentinel, and an event that is not
\* item-added, item-updated or item-done, is forwarded as it came, type and
\* identifier, without a call to the store and without a change of the
\* resolved identifier; a run with no sentinel event never calls
\* generate_item_id.
C38_OnlySentinelIdsRewritten ==
    /\ [](/\ Len(out) = Len(inp)
          /\ \A i \in 1..Len(inp) :
                /\ out[i].type = inp[i].type
                /\ (inp[i].id # FAKE_ID \/ inp[i].type \notin ItemEventTypes)
                      => out[i] = inp[i]
          /\ Placeholders = {} => (genCalls = 0 /\ fake_id = NoId))
    /\ [][(rphase = "streaming" /\ Len(inp') = Len(inp) + 1
             /\ (inp'[Len(inp')].id # FAKE_ID
                   \/ inp'[Len(inp')].type \notin ItemEventTypes)) =>
            /\ out' = Append(out, inp'[Len(inp')])
            /\ genCalls' = genCalls
            /\ nextItemId' = nextItemId
            /\ fake_id' = fake_id]_vars

\* A run is over that produced no sentinel event: an event of another class
\* that carries "__fake_id__", an item event with a stable identifier and an
\* event without identifier were forwarded as they came, and the store was
\* never asked for an identifier.
C38_Witness ==
    /\ rphase = "done"
    /\ inp = << [type |-> "other", id |-> FAKE_ID],
                [type |-> "item_updated", id |-> UpstreamId],
                [type |-> "other", id |-> NoId] >>
    /\ out = inp
    /\ genCalls = 0
    /\ fake_id = NoId

\* C39: the classifier of respond and the classifier of chatkit_endpoint
\* derive the same retry hint from the same provider message, for every
\* message of a rate-limit failure: both give minutes, both give "a few
\* seconds", or both give no hint.
C39_ClassifiersAgreeOnHint ==
    (rphase = "failed" /\ rawFailure.kind = "RateLimitError") =>
        RespondRetryInfo(errInfo.msg) = EndpointRetryInfo(errInfo.msg)

\* The steps a run has completed: the history loader has supplied the prior
\* items, the connection is acquired and the agent bound to it, the model run
\* is started.
HistorySupplied == \E i \in 1..Len(steps) : steps[i] = "history"
AgentBound == \E i \in 1..Len(steps) : steps[i] = "agent"
ModelRunStarted == \E i \in 1..Len(steps) : steps[i] = "convert"
IsPrefixOf(s, t) == Len(s) <= Len(t) /\ \A i \in 1..Len(s) : s[i] = t[i]

\* C26 as stated: within one request the connection is acquired and the
\* agent bound before the history loader supplies prior items, and the model
\* run starts only after both.
C26_AgentBoundBeforeHistory ==
    /\ HistorySupplied => AgentBound
    /\ ModelRunStarted => (AgentBound /\ HistorySupplied)
    /\ IsPrefixOf(steps, <<"agent", "history", "convert">>)

\* C26, amended: the history loader supplies prior items before the
\* connection is acquired and the agent bound, and the model run starts only
\* after both.
C26_HistoryBeforeAgentBound ==
    /\ AgentBound => HistorySupplied
    /\ ModelRunStarted => (AgentBound /\ HistorySupplied)
    /\ IsPrefixOf(steps, <<"history", "agent", "convert">>)
    /\ rphase \in {"streaming", "done"} => ModelRunStarted

\* A run is streaming events after its three steps: the history was loaded,
\* then the agent bound, then the run started.
C26_Witness ==
    /\ rphase = "streaming"
    /\ steps = <<"history", "agent", "convert">>
    /\ Len(out) = 1

\* Task t is inside "async with _mcp_client_lock" in this step: it holds
\* the lock, or it takes the free lock in the step, from the call or as the
\* first waiter.
InLockedSection(t) ==
    \/ lockHolder = t
    \/ /\ lockHolder = NoTask
       /\ RunsLocked(t)
       /\ IF pc[t] = "wait" THEN Head(lockWaiters) = t ELSE lockWaiters = <<>>

\* C24: the cache mapping is mutated only under the lock: every step that
\* inserts or removes an entry or updates a last_used is the step of one
\* task that is inside the locked section, and no two tasks are inside the
\* section at once (the holder of the lock is the one task between the lookup
\* and the end of its connect).
C24_CacheMutatedOnlyUnderLock ==
    /\ [](/\ \A t \in Tasks : (pc[t] = "connecting") <=> (lockHolder = t)
          /\ Cardinality({t \in Tasks : pc[t] = "connecting"}) <= 1)
    /\ [][cache' # cache =>
            \E t \in Tasks :
               /\ InLockedSection(t)
               /\ pc'[t] # pc[t]
               /\ \A o \in Tasks \ {t} : pc'[o] = pc[o] /\ lockHolder # o]_vars

\* One task holds the lock while it connects, the other waits for the lock,
\* and the cache holds an entry stored by an earlier call.
C24_Witness ==
    /\ pc["r1"] = "connecting" /\ lockHolder = "r1"
    /\ pc["r2"] = "wait" /\ lockWaiters = <<"r2">>
    /\ DOMAIN cache # {}

\* The behaviour ends at the bound on the clients constructed: the lock is
\* free, and the acquire of its first waiter would construct one client more.
CutShort ==
    /\ Len(clients) = MaxClients
    /\ lockHolder = NoTask
    /\ lockWaiters # <<>>
    /\ op[Head(lockWaiters)].kind = "acquire"
    /\ ~CacheHit(Pop(cache, ExpiredUsers(cache, op[Head(lockWaiters)].now)),
                 op[Head(lockWaiters)].user, op[Head(lockWaiters)].token)

\* C23: the lock is held only while acquire or invalidate decides and
\* mutates: a task that has returned from either, or out of which either has
\* raised (a failed connect included), does not hold it, nor does a request
\* that is using a returned client; and a task that waits for the lock
\* eventually obtains it, connect and close calls terminating.
C23_LockReleasedAndEventuallyObtained ==
    /\ [](\A t \in Tasks :
             pc[t] \in {"idle", "running", "raised", "invalidated", "wait"}
                 => lockHolder # t)
    /\ \A t \in Tasks :
          (pc[t] = "wait") ~> (pc[t] # "wait" \/ CutShort)

\* The connect of one task failed while the other waited for the lock; the
\* waiting task has obtained the lock and is connecting.
C23_Witness ==
    /\ pc["r1"] = "raised" /\ clients[1].state = "failed"
    /\ pc["r2"] = "connecting" /\ lockHolder = "r2"
    /\ scenario = "returned"

\* C25 as stated: at process shutdown every client still held in the cache
\* is closed: once the shutdown sequence has completed, the cache holds no
\* client on which no close was attempted, and no connected client is open.
C25_ShutdownClosesCachedClients ==
    (\A t \in Tasks : pc[t] = "stopped") =>
        /\ \A u \in DOMAIN cache : clients[cache[u].client].closes >= 1
        /\ \A k \in ClientIds :
              ~(clients[k].state = "connected" /\ clients[k].open
                  /\ clients[k].closes = 0)

\* C33: a caller of acquire(user_id, token) only ever receives a client that
\* was constructed for that user_id with exactly that token as its
\* Authorization header, never one cached under another user and never one
\* connected with another token, under any interleaving of requests.
C33_ClientMatchesCaller ==
    \A t \in Tasks :
        (pc[t] = "running" /\ op[t].kind = "acquire") =>
            /\ result[t] \in ClientIds
            /\ clients[result[t]].user = op[t].user
            /\ clients[result[t]].token = op[t].token
            /\ clients[result[t]].state = "connected"

\* Two requests of u1 with different credentials are both being served, each
\* by the client built with its own credential.
C33_Witness ==
    /\ pc["r1"] = "running" /\ pc["r2"] = "running"
    /\ op["r1"].user = "u1" /\ op["r2"].user = "u1"
    /\ op["r1"].token = "credA" /\ op["r2"].token = "credB"
    /\ result["r1"] # result["r2"]
    /\ clients[result["r1"]].token = "credA"
    /\ clients[result["r2"]].token = "credB"

\* C34: no client leaks from the cache: a client that leaves the mapping (by
\* the idle sweep, invalidate or the replacement of a credential) has a close
\* attempted on it in the same step, and so has one whose connect failed, so
\* that every connected client on which no close was ever attempted is the
\* current cache entry of its user.
C34_NoClientLeaks ==
    /\ [](\A k \in ClientIds :
            /\ (clients[k].state = "connected" /\ clients[k].closes = 0) =>
                  /\ clients[k].user \in DOMAIN cache
                  /\ cache[clients[k].user].client = k
            /\ clients[k].state = "failed" => clients[k].closes >= 1)
    /\ [][\A u \in DOMAIN cache :
            (u \notin DOMAIN cache' \/ cache'[u].client # cache[u].client) =>
                clients'[cache[u].client].closes
                    = clients[cache[u].client].closes + 1]_vars

\* The first client was replaced on a change of credential and the second
\* was dropped by invalidate; a close was attempted on each, once, and no
\* entry is cached.
C34_Witness ==
    /\ Len(clients) = 2
    /\ clients[1].closedBy = "refresh" /\ clients[2].closedBy = "invalidate"
    /\ \A k \in ClientIds : clients[k].closes = 1
    /\ DOMAIN cache = {}

\* C35: acquire never serves an idle-expired entry as a hit: when the
\* caller's own entry, its credential matching, has been idle for more than
\* 600 seconds at the timestamp the call captured, the entry is closed and
\* removed and a fresh connection is made; an entry idle for exactly 600
\* seconds is served as a hit.
C35_ExpiredEntryNeverServed ==
    [][\A t \in Tasks :
          (/\ RunsLocked(t) /\ op'[t].kind = "acquire"
           /\ op'[t].user \in DOMAIN cache
           /\ cache[op'[t].user].token = op'[t].token) =>
              LET u == op'[t].user
                  old == cache[u].client
                  idle == CapturedNow(t) - cache[u].last_used
              IN  /\ idle > 600 =>
                        /\ pc'[t] = "connecting"
                        /\ u \notin DOMAIN cache'
                        /\ clients'[old].closes = clients[old].closes + 1
                        /\ clients'[old].closedBy = "sweep"
                        /\ op'[t].new # old
                        /\ clients'[op'[t].new].state = "connecting"
                  /\ idle = 600 =>
                        /\ pc'[t] = "running"
                        /\ result'[t] = old
                        /\ clients'[old] = clients[old]
                        /\ cache'[u].client = old]_vars

\* A request found its own entry, credential unchanged, idle for 1200
\* seconds: the old client was swept and a second one is connecting.
C35_Witness ==
    \E t \in Tasks :
        /\ pc[t] = "connecting" /\ op[t].new = 2
        /\ op[t].now = 1200
        /\ clients[1].user = op[t].user /\ clients[1].token = op[t].token
        /\ clients[1].state = "connected" /\ clients[1].closedBy = "sweep"
        /\ \A o \in Tasks \ {t} : pc[o] = "idle"

\* C36: at most one connect is in progress at any instant, across all users:
\* the lock is held for the whole of the connection setup, so that while a
\* connect is in progress no acquire or invalidate, of any user, goes through
\* its locked section, and nothing changes in the mapping or in any other
\* client until that connect has succeeded or failed.
C36_OneConnectAtATime ==
    /\ [](/\ Cardinality({k \in ClientIds : clients[k].state = "connecting"})
                <= 1
          /\ \A k \in ClientIds : clients[k].state = "connecting" =>
                \E t \in Tasks : /\ pc[t] = "connecting" /\ op[t].new = k
                                 /\ lockHolder = t)
    /\ [][\A t \in Tasks : pc[t] = "connecting" =>
            /\ \A o \in Tasks \ {t} : ~RunsLocked(o)
            /\ pc'[t] = "connecting" => (cache' = cache /\ clients' = clients)
            /\ pc'[t] # "connecting" =>
                  /\ pc'[t] \in {"running", "raised"}
                  /\ \A k \in ClientIds \ {op[t].new} : clients'[k] = clients[k]]_vars

\* While the connect of a request of u1 is in progress, an invalidate of
\* u2, whose entry is cached, waits for the lock.
C36_Witness ==
    /\ pc["r1"] = "connecting" /\ op["r1"].user = "u1"
    /\ pc["r2"] = "wait" /\ op["r2"].kind = "invalidate"
    /\ op["r2"].user = "u2" /\ "u2" \in DOMAIN cache

(***************************************************************************)
(* Properties of the input of the model run.                               *)
(***************************************************************************)
\* The most recent 20 items of the stored thread, oldest of them first.
Recent20 ==
    LET n == Len(thread)
        k == IF n < 20 THEN n ELSE 20
    IN  [i \in 1..k |-> StoredItem(n - k + i)]

\* C27: the input of the model run is the most recent 20 stored items of the
\* thread in chronological order, followed by the new user message when one
\* is present; with no new message it is exactly the loaded history; and
\* building the input modifies neither the stored thread nor the loaded
\* history.
C27_InputIsRecentHistoryThenMessage ==
    /\ [](ipc \in {"loaded", "built"} =>
            /\ items_page = Recent20
            /\ \A i, j \in 1..Len(items_page) :
                  i < j => items_page[i].n < items_page[j].n)
    /\ [](ipc = "built" =>
            /\ input_message # NoItem =>
                  /\ Len(input_items) = Len(Recent20) + 1
                  /\ \A i \in 1..Len(Recent20) : input_items[i] = Recent20[i]
                  /\ input_items[Len(input_items)] = input_message
            /\ input_message = NoItem => input_items = Recent20)
    /\ [][thread' = thread /\ (ipc = "loaded" => items_page' = items_page)]_vars

\* The input was built from a thread of 22 items and a new message: it is
\* items 3 to 22 and then the message.
C27_Witness ==
    /\ ipc = "built"
    /\ Len(thread) = 22
    /\ input_message = NewMessage(thread)
    /\ Len(input_items) = 21
    /\ input_items[1].n = 3 /\ input_items[20].n = 22
    /\ input_items[21] = input_message

(***************************************************************************)
(* Properties of the task database.                                        *)
(***************************************************************************)
TasksOf(u) == {t \in tasks : t.user_id = u}

\* C29: deleting a user deletes every task owned by that user and leaves
\* every other user and every other user's tasks unchanged; deleting a user
\* with no tasks succeeds.
C29_DeleteUserCascades ==
    [][\A u \in DbUsers :
          (u \in users /\ u \notin users') =>
              /\ users' = users \ {u}
              /\ \A t \in TasksOf(u) : t \notin tasks'
              /\ \A o \in DbUsers \ {u} :
                    {t \in tasks' : t.user_id = o} = TasksOf(o)
              /\ tasks' \subseteq tasks
              /\ dbLast' = [stmt |-> "delete_user", arg |-> u,
                            result |-> "ok",
                            deleted |-> Cardinality(TasksOf(u))]]_vars

\* alice, who owned two tasks, was deleted; bob and bob's task remain.
C29_Witness ==
    /\ dbLast = [stmt |-> "delete_user", arg |-> "alice", result |-> "ok",
                 deleted |-> 2]
    /\ users = {"bob"}
    /\ Cardinality(tasks) = 1
    /\ \A t \in tasks : t.user_id = "bob"

\* C30: in every reachable state every task's user_id refers to an existing
\* user: an insert of a task whose user_id is null or names no user is
\* rejected with an integrity error and leaves both tables unchanged, and no
\* sequence of inserts and deletes leaves an orphaned task.
C30_NoOrphanedTask ==
    /\ [](\A t \in tasks : t.user_id # NULL /\ t.user_id \in users)
    /\ [][(task_id_seq' # task_id_seq /\ dbLast'.arg \notin users) =>
            /\ dbLast'.stmt = "insert_task"
            /\ dbLast'.result = "IntegrityError"
            /\ users' = users /\ tasks' = tasks]_vars

\* A task of alice exists; an insert of a task for bob, who is not in users,
\* has just been rejected, after an earlier id was drawn and its row is gone.
C30_Witness ==
    /\ dbLast = [stmt |-> "insert_task", arg |-> "bob",
                 result |-> "IntegrityError", deleted |-> 0]
    /\ users = {"alice"}
    /\ tasks # {}
    /\ task_id_seq = 3

\* The highest id a task has ever received, 0 when none has.
HighestAssigned ==
    IF assigned = {} THEN 0
    ELSE CHOOSE i \in assigned : \A j \in assigned : j <= i

\* Every insert of a task so far succeeded: each value drawn from the
\* sequence went to a task.
OnlySuccessfulCreations == assigned = 1..task_id_seq

\* C31: task ids are never reused: a newly created task receives an id that
\* no task received before, whatever was deleted since; and after successful
\* creations and deletions only (deleting every task included) that id is one
\* greater than the highest id ever assigned.
C31_TaskIdsNeverReused ==
    /\ [](\A t \in tasks : t.id \in assigned)
    /\ [][\A t \in tasks' \ tasks :
            /\ t.id \notin assigned
            /\ t.id > HighestAssigned
            /\ OnlySuccessfulCreations => t.id = HighestAssigned + 1
            /\ assigned' = assigned \cup {t.id}]_vars

\* Three tasks were created and all deleted, and a fourth was created: it
\* has id 4 and is the only row.
C31_Witness ==
    /\ assigned = {1, 2, 3, 4}
    /\ task_id_seq = 4
    /\ Cardinality(tasks) = 1
    /\ \A t \in tasks : t.id = 4
    /\ dbLast.stmt = "insert_task" /\ dbLast.result = "ok"

(***************************************************************************)
(* Properties of the authorization dependencies.                           *)
(***************************************************************************)
\* C32: verify_user_ownership lets a request through only when the verified
\* session's userId equals the user_id of the path: with no userId in the
\* session the outcome is 401, with a userId other than the path's it is 403,
\* and the value returned on success is the path's user_id.  This holds of
\* the function on every session data, and of a whole request through the
\* dependencies it rests on.
C32_OnlyOwnerPasses ==
    /\ \A uid \in PathUserIds :
       \A sd \in [userId : SessionUserIds, emailVerified : BOOLEAN] :
          LET r == verify_user_ownership(uid, sd) IN
          /\ r.status \in {"returned", "401", "403"}
          /\ r.status = "returned" => (sd.userId = uid /\ r.value = uid)
          /\ sd.userId \in {"", "None"} => r.status = "401"
          /\ (sd.userId \in {"alice", "bob"} /\ sd.userId # uid)
                => r.status = "403"
    /\ apc = "done" =>
          /\ response.status = "returned" =>
                /\ session_lookup = "valid"
                /\ session_userId = path_user_id
                /\ response.value = path_user_id
          /\ session_lookup = "valid" =>
                /\ session_userId \in {"", "None"} => response.status = "401"
                /\ (session_userId \in {"alice", "bob"}
                      /\ session_userId # path_user_id)
                      => response.status = "403"

\* A request of alice for her own path, her email verified, was let through
\* with the path's user_id.
C32_Witness ==
    /\ apc = "done"
    /\ path_user_id = "alice" /\ session_userId = "alice"
    /\ email_lookup = "true" /\ session_data.emailVerified
    /\ response = [status |-> "returned", value |-> "alice"]

=============================================================================
